---- MODULE Spec2Model ----
(***************************************************************************)
(* Model of the decision-and-execution loop of rasa.core.processor         *)
(* (MessageProcessor) together with the parts of rasa.core.domain it       *)
(* calls.  The tracker, the events and the action runner are collaborators *)
(* whose behaviour is taken from the specification and the tests.          *)
(***************************************************************************)
EXTENDS Integers, Sequences, FiniteSets, TLC

----------------------------------------------------------------------------
(* Bounds of the model *)

\* largest value of max_number_of_predictions a processor is built with
MaxPredictions == 3
\* the clock runs from 0 to MaxTime (minutes)
MaxTime == 2
\* number of user messages logged and actions executed in one behaviour
MaxSteps == 3
\* the entries of the lookup table of the rules
MaxRules == 2
\* entries of a list of names of a domain
MaxNames == 2
\* story steps of a story graph, nodes of a graph that is sorted
MaxStorySteps == 3

----------------------------------------------------------------------------
(* Names *)

NONE == "none"

ACTION_LISTEN_NAME == "action_listen"
ACTION_SESSION_START_NAME == "action_session_start"
ACTION_RESTART_NAME == "action_restart"
ACTION_CUSTOM == "action_custom"
\* a name no domain action carries
ACTION_UNKNOWN == "action_unknown"

USER_INTENT_RESTART == "restart"
USER_INTENT_GREET == "greet"

DEFAULT_SENDER_ID == "default"
REMINDER_NAME == "r1"
SLOT_NAME == "my_slot"
POLICY_NAME == "policy_0_RulePolicy"

\* Domain.action_names: default actions, then the user's actions
action_names ==
    << ACTION_LISTEN_NAME, ACTION_RESTART_NAME, ACTION_SESSION_START_NAME,
       ACTION_CUSTOM >>

num_actions == Len(action_names)

Intents == { USER_INTENT_GREET, USER_INTENT_RESTART }

----------------------------------------------------------------------------
(* Events.  Every event is a record of the same shape:                     *)
(*   type   the event class                                                *)
(*   name   action name / intent / slot key / reminder name                *)
(*   ts     timestamp (minutes)                                            *)
(*   policy, confidence  of ActionExecuted and ActionExecutionRejected     *)
(*          (NONE and -1 stand for Python's None)                          *)

Event(type, name, ts, policy, confidence) ==
    [ type |-> type, name |-> name, ts |-> ts,
      policy |-> policy, confidence |-> confidence ]

UserUttered(intent, ts) == Event("user", intent, ts, NONE, -1)
ActionExecuted(action_name, policy, confidence, ts) ==
    Event("action", action_name, ts, policy, confidence)
ActionExecutionRejected(action_name, policy, confidence, ts) ==
    Event("rejected", action_name, ts, policy, confidence)
SessionStarted(ts) == Event("session_started", NONE, ts, NONE, -1)
Restarted(ts) == Event("restart", NONE, ts, NONE, -1)
SlotSet(key, ts) == Event("slot", key, ts, NONE, -1)
BotUttered(ts) == Event("bot", NONE, ts, NONE, -1)
ReminderScheduled(name, ts) == Event("reminder", name, ts, NONE, -1)
ReminderCancelled(name, ts) == Event("cancel_reminder", name, ts, NONE, -1)
FollowupAction(action_name, ts) == Event("followup", action_name, ts, NONE, -1)
ConversationPaused(ts) == Event("pause", NONE, ts, NONE, -1)

\* e with its timestamp overwritten (e.timestamp = ...)
Stamp(e, ts) == [ e EXCEPT !.ts = ts ]

----------------------------------------------------------------------------
(* Conversation tracker: the event list and the projection derived from it *)

EmptyTracker ==
    [ events |-> << >>,
      paused |-> FALSE,
      followup_action |-> NONE,
      latest_intent |-> NONE,
      latest_action_name |-> NONE,
      slot |-> FALSE ]

\* DialogueStateTracker._reset: the projection of an empty conversation
reset(tr) == [ EmptyTracker EXCEPT !.events = tr.events ]

\* DialogueStateTracker.clear_followup_action
clear_followup_action(tr) == [ tr EXCEPT !.followup_action = NONE ]

\* Event.apply_to: the folding rule of each event type
apply_to(tr, e) ==
    CASE e.type = "user" ->
            [ tr EXCEPT !.latest_intent = e.name, !.followup_action = NONE ]
      [] e.type = "action" ->
            [ tr EXCEPT !.latest_action_name = e.name, !.followup_action = NONE ]
      [] e.type = "slot" -> [ tr EXCEPT !.slot = TRUE ]
      [] e.type = "session_started" -> reset(tr)
      [] e.type = "restart" ->
            [ reset(tr) EXCEPT !.followup_action = ACTION_LISTEN_NAME ]
      [] e.type = "followup" -> [ tr EXCEPT !.followup_action = e.name ]
      [] e.type = "pause" -> [ tr EXCEPT !.paused = TRUE ]
      [] OTHER -> tr

\* DialogueStateTracker.update: append the event, fold it into the projection
update(tr, e) ==
    LET applied == apply_to(tr, e)
    IN  [ applied EXCEPT !.events = Append(tr.events, e) ]

RECURSIVE update_all(_, _)
update_all(tr, evs) ==
    IF evs = << >> THEN tr
    ELSE update_all(update(tr, Head(evs)), Tail(evs))

\* DialogueStateTracker.from_events: replay a stored event list
from_events(evs) == update_all(EmptyTracker, evs)

\* DialogueStateTracker.applied_events: the events since the last
\* restart / session start
RECURSIVE applied_events_from(_, _)
applied_events_from(evs, acc) ==
    IF evs = << >> THEN acc
    ELSE IF Head(evs).type \in { "restart", "session_started" }
         THEN applied_events_from(Tail(evs), << >>)
         ELSE applied_events_from(Tail(evs), Append(acc, Head(evs)))

applied_events(tr) == applied_events_from(tr.events, << >>)

\* Python's None where an event is expected
NoEvent == Event(NONE, NONE, -1, NONE, -1)

\* DialogueStateTracker.get_last_event_for(UserUttered): the last user event
\* among the applied events, or None
get_last_user_uttered(tr) ==
    LET ae == applied_events(tr)
        idx == { i \in 1..Len(ae) : ae[i].type = "user" }
    IN  IF idx = {} THEN NoEvent
        ELSE ae[CHOOSE i \in idx : \A j \in idx : j <= i]

is_paused(tr) == tr.paused

----------------------------------------------------------------------------
(* Domain *)

\* SessionConfig.are_sessions_enabled
are_sessions_enabled(expiration_time) == expiration_time > 0

\* Domain.index_for_action: the 0-based index of the name in action_names;
\* a name that is not there raises NameError
index_for_action(action_name) ==
    LET idx == { i \in 1..num_actions : action_names[i] = action_name }
    IN  IF idx = {}
        THEN [ raised |-> "NameError", value |-> -1 ]
        ELSE [ raised |-> NONE,
               value |-> (CHOOSE i \in idx : \A j \in idx : i <= j) - 1 ]

\* Domain.action_for_name: the action registered under the name;
\* a name that is not in action_names raises NameError
action_for_name(action_name) ==
    IF \A i \in 1..num_actions : action_names[i] # action_name
    THEN [ raised |-> "NameError", name |-> NONE ]
    ELSE [ raised |-> NONE, name |-> action_name ]

\* action_for_index without the check of the index: Python's subscript
\* takes the last name for an index past the end
action_for_index_unchecked(index) ==
    action_for_name(action_names[IF index + 1 > num_actions \/ index < 0
                                 THEN num_actions ELSE index + 1])

\* Domain.action_for_index: the action at a 0-based index;
\* an index outside [0, num_actions) raises IndexError
action_for_index(index) ==
    IF num_actions <= index \/ index < 0
    THEN [ raised |-> "IndexError", name |-> NONE ]
    ELSE action_for_name(action_names[index + 1])

----------------------------------------------------------------------------
(* Collaborators of the processor *)

\* [0.0] * n with result[idx] = 1.0 (idx 0-based)
OneHot(idx, n) == [ i \in 1..n |-> IF i = idx + 1 THEN 1 ELSE 0 ]

\* PolicyEnsemble.probabilities_using_best_policy: some probability vector.
\* An ensemble trained for this domain answers with num_actions entries;
\* one trained for a larger domain may put its maximum beyond them.
EnsemblePredictions ==
    { OneHot(i, num_actions) : i \in 0..(num_actions - 1) }
        \cup { OneHot(num_actions, num_actions + 1) }

\* numpy.argmax: the 0-based index of the first maximum
argmax(v) ==
    (CHOOSE i \in 1..Len(v) :
        /\ \A j \in 1..Len(v) : v[j] <= v[i]
        /\ \A j \in 1..(i - 1) : v[j] < v[i]) - 1

\* the SlotSet events among a list of events
RECURSIVE slot_set_events(_)
slot_set_events(evs) ==
    IF evs = << >> THEN << >>
    ELSE IF Head(evs).type = "slot"
         THEN << Stamp(Head(evs), 0) >> \o slot_set_events(Tail(evs))
         ELSE slot_set_events(Tail(evs))

\* ActionSessionStart.run: SessionStarted, the carried-over slots, action_listen
action_session_start_run(tr, carry_over) ==
    << SessionStarted(0) >>
        \o (IF carry_over THEN slot_set_events(applied_events(tr)) ELSE << >>)
        \o << ActionExecuted(ACTION_LISTEN_NAME, NONE, -1, 0) >>

\* what a custom action may return
CustomResults ==
    { << SlotSet(SLOT_NAME, 0), BotUttered(0), ReminderScheduled(REMINDER_NAME, 0) >>,
      << ReminderCancelled(REMINDER_NAME, 0) >>,
      << FollowupAction(ACTION_UNKNOWN, 0) >>,
      << FollowupAction(ACTION_LISTEN_NAME, 0) >>,
      << ConversationPaused(0) >> }

Returned(evs) == [ kind |-> "ok", events |-> evs ]
Rejection == [ kind |-> "rejected", events |-> << >> ]
Failure == [ kind |-> "exception", events |-> << >> ]

\* Action.run: the outcomes of running the named action on the tracker
ActionRun(action_name, tr, carry_over) ==
    CASE action_name = ACTION_SESSION_START_NAME ->
            { Returned(action_session_start_run(tr, carry_over)) }
      [] action_name = ACTION_RESTART_NAME -> { Returned(<< Restarted(0) >>) }
      [] action_name = ACTION_CUSTOM ->
            { Returned(r) : r \in CustomResults } \cup { Rejection, Failure }
      [] OTHER -> { Returned(<< >>) }

\* ReminderScheduled.scheduled_job_name: the name of the job of reminder e
\* in the conversation of sender_id
scheduled_job_name(e, sender_id) ==
    [ reminder |-> e.name, sender_id |-> sender_id ]

\* ReminderCancelled.cancels_job_with_name: the job name is that of a
\* reminder with the cancelled name in the conversation of sender_id
cancels_job_with_name(e, job_name, sender_id) ==
    job_name.reminder = e.name /\ job_name.sender_id = sender_id

\* a job of the scheduler: handle_reminder with its arguments
Job(id, name, args) == [ id |-> id, name |-> name, args |-> args ]

\* add_job that leaves a pending job with the same id in place
add_job_keeping_existing(js, id, name, args) ==
    IF \E j \in js : j.id = id THEN js ELSE js \cup { Job(id, name, args) }

\* scheduler.add_job(..., id=id, replace_existing=True, name=name)
add_job(js, id, name, args) ==
    { j \in js : j.id # id } \cup { Job(id, name, args) }

\* scheduler.remove_job(id)
remove_job(js, id) == { j \in js : j.id # id }

----------------------------------------------------------------------------
(* State *)

VARIABLES
    max_number_of_predictions,  \* MessageProcessor.max_number_of_predictions
    session_expiration_time,    \* domain.session_config.session_expiration_time
    carry_over_slots,           \* domain.session_config.carry_over_slots
    now,                        \* time.time(), in minutes
    store,                      \* tracker_store: the saved event list
    tracker,                    \* the tracker instance of the request in progress
    output_messages,            \* number of responses sent on the output channel
    jobs,                       \* the scheduler's pending jobs
    pc,                         \* position of the request in progress
    op,                         \* the request in progress
    steps,                      \* user messages logged and actions executed so far
    should_predict_another,     \* local should_predict_another_action of the loop
    num_predicted_actions,      \* local num_predicted_actions of the loop
    circuit_breaks,             \* calls of on_circuit_break in this request
    loop_run,                   \* history: the predictions of this loop run
    ran,                        \* history: the latest _run_action of this request
    resolved,                   \* history: the latest action resolution
    error,                      \* the exception that ended the request, or NONE
    call,                       \* a function of the processor examined on its own
    executions                  \* the executions in flight on one conversation

vars ==
    << max_number_of_predictions, session_expiration_time, carry_over_slots,
       now, store, tracker, output_messages, jobs, pc, op, steps,
       should_predict_another, num_predicted_actions, circuit_breaks,
       loop_run, ran, resolved, error, call, executions >>

config == << max_number_of_predictions, session_expiration_time, carry_over_slots >>

NoRun == [ name |-> NONE, policy |-> NONE, confidence |-> -1, kind |-> NONE ]
NoResolution == [ name |-> NONE, index |-> -1, followup |-> NONE, policy |-> NONE ]
\* no function of the processor is being examined on its own
NoCall == [ op |-> NONE ]

\* the coroutines of the event loop that execute operations of the processor
Coroutines == { "a", "b" }

\* a coroutine that executes no operation: no tracker instance, no locals
NoExecution ==
    [ op |-> NONE, pc |-> "idle", tracker |-> EmptyTracker,
      num_predicted_actions |-> 0, should_predict_another |-> TRUE,
      reminder |-> NONE, error |-> NONE ]

\* what the requests served one at a time leave alone
aside == << call, executions >>

----------------------------------------------------------------------------
(* MessageProcessor *)

\* should_predict_another_action that stops on action_listen alone
should_predict_another_action_listen_only(action_name) ==
    action_name # ACTION_LISTEN_NAME

\* MessageProcessor.should_predict_another_action
should_predict_another_action(action_name) ==
    action_name \notin { ACTION_LISTEN_NAME, ACTION_SESSION_START_NAME }

\* _should_handle_message that takes every message, paused or not
_should_handle_message_always(tr) == TRUE

\* MessageProcessor._should_handle_message
_should_handle_message(tr) ==
    ~is_paused(tr) \/ tr.latest_intent = USER_INTENT_RESTART

\* is_action_limit_reached with the limit compared off by one
is_action_limit_reached_off_by_one(num, should_predict) ==
    num > max_number_of_predictions /\ should_predict

\* is_action_limit_reached without regard to the last executed action
is_action_limit_reached_any_action(num, should_predict) ==
    num >= max_number_of_predictions

\* MessageProcessor.is_action_limit_reached
is_action_limit_reached(num, should_predict) ==
    num >= max_number_of_predictions /\ should_predict

\* the condition of the while loop of _predict_and_execute_next_action
loop_condition(tr, num, should_predict) ==
    /\ should_predict
    /\ _should_handle_message(tr)
    /\ num < max_number_of_predictions

\* _has_session_expired that takes a session of exactly the expiration time
\* for expired
_has_session_expired_at_limit(tr, t) ==
    IF ~are_sessions_enabled(session_expiration_time) THEN FALSE
    ELSE LET user_uttered_event == get_last_user_uttered(tr)
         IN  IF user_uttered_event = NoEvent THEN FALSE
             ELSE t - user_uttered_event.ts >= session_expiration_time

\* MessageProcessor._has_session_expired (times in minutes)
_has_session_expired(tr, t) ==
    IF ~are_sessions_enabled(session_expiration_time) THEN FALSE
    ELSE LET user_uttered_event == get_last_user_uttered(tr)
         IN  IF user_uttered_event = NoEvent THEN FALSE
             ELSE t - user_uttered_event.ts > session_expiration_time

\* time.time(): a clock is the sequence of the readings it will give, each
\* not less than the one before; once the sequence is used up the clock
\* keeps giving its last reading
Reading(clock) == Head(clock)
Advance(clock) == IF Len(clock) > 1 THEN Tail(clock) ELSE clock
\* the clock that gives the reading t for ever
StoppedClock(t) == << t >>

\* the loop of _log_action_on_tracker: stamp and apply each produced event
RECURSIVE log_events(_, _, _)
log_events(tr, events, clock) ==
    IF events = << >> THEN tr
    ELSE log_events(update(tr, Stamp(Head(events), Reading(clock))),
                    Tail(events), Advance(clock))

\* the clock after the loop of _log_action_on_tracker
RECURSIVE clock_after(_, _)
clock_after(events, clock) ==
    IF events = << >> THEN clock
    ELSE clock_after(Tail(events), Advance(clock))

\* _log_action_on_tracker that logs the action after the events it produced
_log_action_on_tracker_action_last(tr, action_name, events, policy, confidence, clock) ==
    LET logged == log_events(tr, events, clock)
    IN  IF action_name # NONE
        THEN update(logged, ActionExecuted(action_name, policy, confidence,
                                           Reading(clock_after(events, clock))))
        ELSE logged

\* _log_action_on_tracker that puts the ActionExecuted event in the place of
\* the last event of the tracker
_log_action_on_tracker_rewriting(tr, action_name, events, policy, confidence, clock) ==
    LET kept == from_events(SubSeq(tr.events, 1, Len(tr.events) - 1))
    IN  log_events(update(kept, ActionExecuted(action_name, policy, confidence,
                                               Reading(clock))),
                   events, Advance(clock))

\* MessageProcessor._log_action_on_tracker
_log_action_on_tracker(tr, action_name, events, policy, confidence, clock) ==
    IF action_name # NONE
    THEN log_events(update(tr, ActionExecuted(action_name, policy, confidence,
                                              Reading(clock))),
                    events, Advance(clock))
    ELSE log_events(tr, events, clock)

\* MessageProcessor._send_bot_messages: one response per BotUttered
RECURSIVE _send_bot_messages(_, _)
_send_bot_messages(events, sent) ==
    IF events = << >> THEN sent
    ELSE _send_bot_messages(Tail(events),
            IF Head(events).type = "bot" THEN sent + 1 ELSE sent)

\* MessageProcessor._schedule_reminders
RECURSIVE _schedule_reminders(_, _, _)
_schedule_reminders(events, js, sender_id) ==
    IF events = << >> THEN js
    ELSE _schedule_reminders(Tail(events),
            IF Head(events).type = "reminder"
            THEN add_job(js, Head(events).name,
                         scheduled_job_name(Head(events), sender_id),
                         << Head(events), sender_id >>)
            ELSE js,
            sender_id)

\* the loop over scheduler.get_jobs() in _cancel_reminders: the job with
\* the id of every job the event cancels is removed
remove_cancelled(event, js, sender_id) ==
    LET cancelled == { scheduled_job \in js :
                        cancels_job_with_name(event, scheduled_job.name, sender_id) }
    IN  { j \in js : \A scheduled_job \in cancelled : j \in remove_job(js, scheduled_job.id) }

\* _cancel_reminders that does not look at the sender id of the job
RECURSIVE _cancel_reminders_any_sender(_, _, _)
_cancel_reminders_any_sender(events, js, sender_id) ==
    IF events = << >> THEN js
    ELSE _cancel_reminders_any_sender(Tail(events),
            IF Head(events).type = "cancel_reminder"
            THEN { j \in js : j.name.reminder # Head(events).name }
            ELSE js,
            sender_id)

\* MessageProcessor._cancel_reminders
RECURSIVE _cancel_reminders(_, _, _)
_cancel_reminders(events, js, sender_id) ==
    IF events = << >> THEN js
    ELSE _cancel_reminders(Tail(events),
            IF Head(events).type = "cancel_reminder"
            THEN remove_cancelled(Head(events), js, sender_id)
            ELSE js,
            sender_id)

\* _run_action whose rejection handler does not return: the rejected action
\* is logged as executed as well
_run_action_rejection_falls_through(tr, action_name, outcome, policy, confidence, clock, sent, js) ==
    LET rejected == IF outcome.kind = "rejected"
                    THEN update(tr, ActionExecutionRejected(action_name, policy,
                                                            confidence,
                                                            Reading(clock)))
                    ELSE tr
        events == IF outcome.kind = "ok" THEN outcome.events ELSE << >>
    IN  [ tracker |-> _log_action_on_tracker(rejected, action_name, events,
                                             policy, confidence,
                                             IF outcome.kind = "rejected"
                                             THEN Advance(clock) ELSE clock),
          sent |-> _send_bot_messages(events, sent),
          jobs |-> _cancel_reminders(events,
                       _schedule_reminders(events, js, DEFAULT_SENDER_ID),
                       DEFAULT_SENDER_ID),
          result |-> should_predict_another_action(action_name) ]

\* _run_action that logs nothing for an action whose run failed
_run_action_failure_not_logged(tr, action_name, outcome, policy, confidence, clock, sent, js) ==
    IF outcome.kind = "rejected"
    THEN [ tracker |-> update(tr, ActionExecutionRejected(action_name, policy,
                                                          confidence,
                                                          Reading(clock))),
           sent |-> sent,
           jobs |-> js,
           result |-> should_predict_another_action(action_name) ]
    ELSE IF outcome.kind = "exception"
    THEN [ tracker |-> tr, sent |-> sent, jobs |-> js,
           result |-> should_predict_another_action(action_name) ]
    ELSE [ tracker |-> _log_action_on_tracker(tr, action_name, outcome.events,
                                              policy, confidence, clock),
           sent |-> _send_bot_messages(outcome.events, sent),
           jobs |-> _cancel_reminders(outcome.events,
                        _schedule_reminders(outcome.events, js, DEFAULT_SENDER_ID),
                        DEFAULT_SENDER_ID),
           result |-> should_predict_another_action(action_name) ]

\* MessageProcessor._run_action, given the outcome of action.run
_run_action(tr, action_name, outcome, policy, confidence, clock, sent, js) ==
    IF outcome.kind = "rejected"
    THEN [ tracker |-> update(tr, ActionExecutionRejected(action_name, policy,
                                                          confidence,
                                                          Reading(clock))),
           sent |-> sent,
           jobs |-> js,
           result |-> should_predict_another_action(action_name) ]
    ELSE LET events == IF outcome.kind = "exception" THEN << >> ELSE outcome.events
         IN  [ tracker |-> _log_action_on_tracker(tr, action_name, events,
                                                  policy, confidence, clock),
               sent |-> _send_bot_messages(events, sent),
               jobs |-> _cancel_reminders(events,
                            _schedule_reminders(events, js, DEFAULT_SENDER_ID),
                            DEFAULT_SENDER_ID),
               result |-> should_predict_another_action(action_name) ]

\* MessageProcessor._prob_array_for_action
_prob_array_for_action(action_name) ==
    LET idx == index_for_action(action_name)
    IN  IF idx.raised # NONE
        THEN [ raised |-> idx.raised, probabilities |-> << >> ]
        ELSE [ raised |-> NONE, probabilities |-> OneHot(idx.value, num_actions) ]

\* _get_next_action_probabilities that leaves the follow-up action pending
_get_next_action_probabilities_keeping_followup(tr, ensemble) ==
    IF tr.followup_action # NONE
    THEN LET result == _prob_array_for_action(tr.followup_action)
         IN  [ raised |-> result.raised,
               tracker |-> tr,
               probabilities |-> result.probabilities,
               policy |-> NONE ]
    ELSE [ raised |-> NONE,
           tracker |-> tr,
           probabilities |-> ensemble,
           policy |-> POLICY_NAME ]

\* MessageProcessor._get_next_action_probabilities; `ensemble` is the answer the
\* policy ensemble gives when it is asked.  The result of
\* _prob_array_for_action is a pair, which `if result:` always takes as true.
_get_next_action_probabilities(tr, ensemble) ==
    IF tr.followup_action # NONE
    THEN LET result == _prob_array_for_action(tr.followup_action)
         IN  [ raised |-> result.raised,
               tracker |-> clear_followup_action(tr),
               probabilities |-> result.probabilities,
               policy |-> NONE ]
    ELSE [ raised |-> NONE,
           tracker |-> tr,
           probabilities |-> ensemble,
           policy |-> POLICY_NAME ]

\* MessageProcessor.predict_next_action
predict_next_action(tr, ensemble) ==
    LET p == _get_next_action_probabilities(tr, ensemble)
    IN  IF p.raised # NONE
        THEN [ raised |-> p.raised, tracker |-> p.tracker, action |-> NONE,
               index |-> -1, policy |-> p.policy, confidence |-> -1 ]
        ELSE LET max_confidence_index == argmax(p.probabilities)
                 action == action_for_index(max_confidence_index)
             IN  [ raised |-> action.raised, tracker |-> p.tracker,
                   action |-> action.name, index |-> max_confidence_index,
                   policy |-> p.policy,
                   confidence |-> p.probabilities[max_confidence_index + 1] ]

\* _update_tracker_session that starts a session on expiry only
_update_tracker_session_on_expiry_only(tr, clock, sent, js) ==
    IF _has_session_expired(tr, Reading(clock))
    THEN LET outcome == Returned(action_session_start_run(tr, carry_over_slots))
         IN  _run_action(tr, ACTION_SESSION_START_NAME, outcome, NONE, -1,
                         Advance(clock), sent, js)
                @@ [ started |-> TRUE ]
    ELSE [ tracker |-> tr, sent |-> sent, jobs |-> js, result |-> TRUE,
           started |-> FALSE ]

\* MessageProcessor._update_tracker_session
_update_tracker_session(tr, clock, sent, js) ==
    IF applied_events(tr) = << >> \/ _has_session_expired(tr, Reading(clock))
    THEN LET outcome == Returned(action_session_start_run(tr, carry_over_slots))
         IN  _run_action(tr, ACTION_SESSION_START_NAME, outcome, NONE, -1,
                         Advance(clock), sent, js)
                @@ [ started |-> TRUE ]
    ELSE [ tracker |-> tr, sent |-> sent, jobs |-> js, result |-> TRUE,
           started |-> FALSE ]

----------------------------------------------------------------------------
(* Requests *)

Requests == { "handle_message", "execute_action", "predict_next" }

\* the action names a caller of execute_action may ask for
RequestedActions == { action_names[i] : i \in 1..num_actions } \cup { ACTION_UNKNOWN }

\* the state of the processor between two requests: no tracker instance, no
\* locals of a request
NoRequest ==
    /\ pc = "idle"
    /\ op = NONE
    /\ tracker = EmptyTracker
    /\ should_predict_another = TRUE
    /\ num_predicted_actions = 0
    /\ circuit_breaks = 0
    /\ loop_run = << >>
    /\ ran = NoRun
    /\ resolved = NoResolution
    /\ error = NONE

\* a request ends: its tracker instance and its locals are gone
Return ==
    /\ pc' = "idle"
    /\ op' = NONE
    /\ tracker' = EmptyTracker
    /\ should_predict_another' = TRUE
    /\ num_predicted_actions' = 0
    /\ circuit_breaks' = 0
    /\ loop_run' = << >>
    /\ ran' = NoRun
    /\ resolved' = NoResolution
    /\ error' = NONE

\* the processors and domains of the model: every prediction limit with
\* sessions disabled, and both session configurations with the least limit
Configurations ==
    { [ max_number_of_predictions |-> n, session_expiration_time |-> 0,
        carry_over_slots |-> FALSE ] : n \in 1..MaxPredictions }
    \cup
    { [ max_number_of_predictions |-> 1, session_expiration_time |-> 1,
        carry_over_slots |-> c ] : c \in BOOLEAN }

Init ==
    /\ \E c \in Configurations :
        /\ max_number_of_predictions = c.max_number_of_predictions
        /\ session_expiration_time = c.session_expiration_time
        /\ carry_over_slots = c.carry_over_slots
    /\ now = 0
    /\ store = << >>
    /\ output_messages = 0
    /\ jobs = {}
    /\ steps = 0
    /\ NoRequest
    /\ call = NoCall
    /\ executions = [ c \in Coroutines |-> NoExecution ]

\* time passes between two requests
Tick ==
    /\ pc = "idle"
    /\ now < MaxTime
    /\ now' = now + 1
    /\ UNCHANGED << config, aside, store, tracker, output_messages, jobs, pc, op, steps,
                    should_predict_another, num_predicted_actions,
                    circuit_breaks, loop_run, ran, resolved, error >>

\* MessageProcessor.get_tracker_with_session_start, the first step of every
\* request: the tracker is loaded from the store and its session is updated
GetTrackerWithSessionStart(request) ==
    /\ pc = "idle"
    /\  LET r == _update_tracker_session(from_events(store), StoppedClock(now),
                                         output_messages, jobs)
        IN  /\ op' = request
            /\ tracker' = r.tracker
            /\ output_messages' = r.sent
            /\ jobs' = r.jobs
            /\ ran' = IF r.started
                      THEN [ name |-> ACTION_SESSION_START_NAME, policy |-> NONE,
                             confidence |-> -1, kind |-> "ok" ]
                      ELSE NoRun
    /\ pc' = "got_tracker"
    /\ should_predict_another' = TRUE
    /\ num_predicted_actions' = 0
    /\ circuit_breaks' = 0
    /\ loop_run' = << >>
    /\ resolved' = NoResolution
    /\ error' = NONE
    /\ UNCHANGED << config, aside, now, store, steps >>

\* log_message that saves the tracker whatever its caller asked for
log_message_saving(should_save_tracker, tr, saved) == tr.events

\* MessageProcessor.log_message: the content of the tracker store once the
\* message is logged on the tracker
log_message(should_save_tracker, tr, saved) ==
    IF should_save_tracker THEN tr.events ELSE saved

\* handle_message calls log_message(message, should_save_tracker=False), and
\* this _handle_message_with_tracker: log the user's message, then enter
\* _predict_and_execute_next_action
HandleMessageWithTracker ==
    /\ pc = "got_tracker"
    /\ op = "handle_message"
    /\ steps < MaxSteps
    /\ \E intent \in Intents :
        /\ tracker' = update(tracker, UserUttered(intent, now))
        /\ store' = log_message(FALSE, tracker', store)
    /\ pc' = "loop"
    /\ steps' = steps + 1
    /\ should_predict_another' = TRUE
    /\ num_predicted_actions' = 0
    /\ UNCHANGED << config, aside, now, output_messages, jobs, op,
                    circuit_breaks, loop_run, ran, resolved, error >>

\* one iteration of the while loop of _predict_and_execute_next_action
PredictAndExecuteNextAction ==
    /\ pc = "loop"
    /\ loop_condition(tracker, num_predicted_actions, should_predict_another)
    /\ steps < MaxSteps
    /\ \E ensemble \in EnsemblePredictions :
        LET p == predict_next_action(tracker, ensemble)
            res == [ name |-> p.action, index |-> p.index,
                     followup |-> tracker.followup_action, policy |-> p.policy ]
        IN  IF p.raised # NONE
            THEN /\ pc' = "raised"
                 /\ error' = p.raised
                 /\ tracker' = p.tracker
                 /\ resolved' = res
                 /\ UNCHANGED << output_messages, jobs, should_predict_another,
                                 num_predicted_actions, loop_run, ran, steps >>
            ELSE \E outcome \in ActionRun(p.action, p.tracker, carry_over_slots) :
                    LET r == _run_action(p.tracker, p.action, outcome, p.policy,
                                         p.confidence, StoppedClock(now),
                                         output_messages, jobs)
                    IN  /\ tracker' = r.tracker
                        /\ output_messages' = r.sent
                        /\ jobs' = r.jobs
                        /\ should_predict_another' = r.result
                        /\ num_predicted_actions' = num_predicted_actions + 1
                        /\ loop_run' = Append(loop_run,
                                [ name |-> p.action, policy |-> p.policy ])
                        /\ ran' = [ name |-> p.action, policy |-> p.policy,
                                    confidence |-> p.confidence,
                                    kind |-> outcome.kind ]
                        /\ resolved' = res
                        /\ steps' = steps + 1
                        /\ UNCHANGED << pc, error >>
    /\ UNCHANGED << config, aside, now, store, op, circuit_breaks >>

\* the end of _predict_and_execute_next_action: the circuit breaker
CircuitBreaker ==
    /\ pc = "loop"
    /\ ~loop_condition(tracker, num_predicted_actions, should_predict_another)
    /\ circuit_breaks' =
            IF is_action_limit_reached(num_predicted_actions, should_predict_another)
            THEN circuit_breaks + 1
            ELSE circuit_breaks
    /\ pc' = "save"
    /\ UNCHANGED << config, aside, now, store, tracker, output_messages, jobs, op, steps,
                    should_predict_another, num_predicted_actions, loop_run,
                    ran, resolved, error >>

\* MessageProcessor.execute_action after the tracker was obtained
ExecuteAction ==
    /\ pc = "got_tracker"
    /\ op = "execute_action"
    /\ steps < MaxSteps
    /\ \E action_name \in RequestedActions :
        LET action == action_for_name(action_name)
            res == [ NoResolution EXCEPT !.name = action_name ]
        IN  IF action.raised # NONE
            THEN /\ pc' = "raised"
                 /\ error' = action.raised
                 /\ resolved' = res
                 /\ UNCHANGED << tracker, output_messages, jobs, ran, steps >>
            ELSE \E outcome \in ActionRun(action_name, tracker, carry_over_slots) :
                    LET r == _run_action(tracker, action_name, outcome, NONE, -1,
                                         StoppedClock(now), output_messages, jobs)
                    IN  /\ tracker' = r.tracker
                        /\ output_messages' = r.sent
                        /\ jobs' = r.jobs
                        /\ ran' = [ name |-> action_name, policy |-> NONE,
                                    confidence |-> -1, kind |-> outcome.kind ]
                        /\ resolved' = res
                        /\ pc' = "save"
                        /\ steps' = steps + 1
                        /\ UNCHANGED error
    /\ UNCHANGED << config, aside, now, store, op, should_predict_another,
                    num_predicted_actions, circuit_breaks, loop_run >>

\* MessageProcessor.predict_next after the tracker was obtained
PredictNext ==
    /\ pc = "got_tracker"
    /\ op = "predict_next"
    /\ \E ensemble \in EnsemblePredictions :
        LET p == _get_next_action_probabilities(tracker, ensemble)
        IN  /\ tracker' = p.tracker
            /\ resolved' = [ NoResolution EXCEPT
                                !.followup = tracker.followup_action,
                                !.policy = p.policy ]
            /\ error' = p.raised
            /\ pc' = IF p.raised # NONE THEN "raised" ELSE "save"
    /\ UNCHANGED << config, aside, now, store, output_messages, jobs, op, steps,
                    should_predict_another, num_predicted_actions,
                    circuit_breaks, loop_run, ran >>

\* MessageProcessor._save_tracker, the last step of a request
SaveTracker ==
    /\ pc = "save"
    /\ store' = tracker.events
    /\ Return
    /\ UNCHANGED << config, aside, now, output_messages, jobs, steps >>

\* an exception leaves the request: its caller gets it, nothing is saved
RequestFailed ==
    /\ pc = "raised"
    /\ Return
    /\ UNCHANGED << config, aside, now, store, output_messages, jobs, steps >>

\* the processor serving requests of every kind, one after the other
Next ==
    \/ \E request \in Requests : GetTrackerWithSessionStart(request)
    \/ HandleMessageWithTracker
    \/ PredictAndExecuteNextAction
    \/ CircuitBreaker
    \/ ExecuteAction
    \/ PredictNext
    \/ SaveTracker
    \/ RequestFailed

Spec == Init /\ [][Next]_vars

\* the processor with the least prediction limit, handling user messages over time
SessionInit ==
    /\ Init
    /\ max_number_of_predictions = 1

SessionNext ==
    \/ Tick
    \/ GetTrackerWithSessionStart("handle_message")
    \/ HandleMessageWithTracker
    \/ PredictAndExecuteNextAction
    \/ CircuitBreaker
    \/ SaveTracker
    \/ RequestFailed

SessionSpec == SessionInit /\ [][SessionNext]_vars

----------------------------------------------------------------------------
(* The functions of the processor examined on their own *)

\* the variables of the processor serving requests
processor ==
    << max_number_of_predictions, session_expiration_time, carry_over_slots,
       now, store, tracker, output_messages, jobs, pc, op, steps,
       should_predict_another, num_predicted_actions, circuit_breaks,
       loop_run, ran, resolved, error, executions >>

\* a processor that serves no request while one of its functions is examined
AtRest ==
    /\ max_number_of_predictions = 1
    /\ session_expiration_time = 0
    /\ carry_over_slots = FALSE
    /\ now = 0
    /\ store = << >>
    /\ output_messages = 0
    /\ jobs = {}
    /\ steps = 0
    /\ NoRequest
    /\ executions = [ c \in Coroutines |-> NoExecution ]

\* the clocks of the model: up to three readings between 0 and MaxTime, none
\* less than the one before
Clocks ==
    { c \in UNION { [ 1..n -> 0..MaxTime ] : n \in 1..3 } :
        \A i \in 1..(Len(c) - 1) : c[i] <= c[i + 1] }

\* the trackers an action is logged on
LoggedTrackers ==
    { from_events(log) : log \in { << >>, << UserUttered(USER_INTENT_GREET, 0) >> } }

\* a call of _log_action_on_tracker: any tracker, action, events and clock
LogInit ==
    /\ AtRest
    /\ \E tr \in LoggedTrackers,
          action_name \in { action_names[i] : i \in 1..num_actions } \cup { NONE },
          events \in CustomResults \cup { << >> },
          clock \in Clocks :
            call = [ op |-> "_log_action_on_tracker", tracker |-> tr,
                     action_name |-> action_name, events |-> events,
                     clock |-> clock, done |-> FALSE, result |-> tr ]

\* the call returns
LogActionOnTracker ==
    /\ call.op = "_log_action_on_tracker"
    /\ ~call.done
    /\ call' = [ call EXCEPT
                    !.done = TRUE,
                    !.result = _log_action_on_tracker(call.tracker, call.action_name,
                                                      call.events, NONE, -1,
                                                      call.clock) ]
    /\ UNCHANGED processor

LogNext == LogActionOnTracker

LogSpec == LogInit /\ [][LogNext]_vars

----------------------------------------------------------------------------
(* The operations on one conversation executed as coroutines of the event  *)
(* loop: each execution has the tracker instance it obtained and its own   *)
(* locals; the tracker store, the scheduler and the output channel are     *)
(* shared.  A step of a coroutine runs from one await to the next.         *)

\* the intent of the external message a reminder triggers
USER_INTENT_EXTERNAL == "EXTERNAL_reminder"

\* UserUttered.create_external
create_external(intent_name, ts) == UserUttered(intent_name, ts)

Operations ==
    { "handle_message", "handle_reminder", "trigger_external_user_uttered",
      "execute_action" }

\* no reminder event
NoReminder == [ name |-> NONE, kill_on_user_message |-> FALSE ]

\* MessageProcessor._is_reminder
_is_reminder(e, name) == e.type = "reminder" /\ e.name = name

\* MessageProcessor._is_reminder_still_valid: the reminder is among the
\* applied events
_is_reminder_still_valid(tr, reminder_event) ==
    LET ae == applied_events(tr)
    IN  \E i \in 1..Len(ae) : _is_reminder(ae[i], reminder_event.name)

\* MessageProcessor._has_message_after_reminder: going back through the
\* events, a user message with a text is met before the reminder
_has_message_after_reminder(tr, reminder_event) ==
    LET evs == tr.events
        met == { i \in 1..Len(evs) :
                    _is_reminder(evs[i], reminder_event.name) \/ evs[i].type = "user" }
    IN  IF met = {} THEN TRUE
        ELSE LET first == CHOOSE i \in met : \A j \in met : j <= i
             IN  ~_is_reminder(evs[first], reminder_event.name)

\* the condition of handle_reminder without the check for a restart
reminder_is_outdated_by_message_only(tr, reminder_event) ==
    /\ reminder_event.kill_on_user_message
    /\ _has_message_after_reminder(tr, reminder_event)

\* the condition of handle_reminder under which the reminder is dropped
reminder_is_outdated(tr, reminder_event) ==
    \/ /\ reminder_event.kill_on_user_message
       /\ _has_message_after_reminder(tr, reminder_event)
    \/ ~_is_reminder_still_valid(tr, reminder_event)

\* the execution of coroutine c becomes x
Becomes(c, x) == executions' = [ executions EXCEPT ![c] = x ]

\* the variables of the requests served one at a time, which the coroutines
\* leave alone
single ==
    << config, now, tracker, pc, op, should_predict_another,
       num_predicted_actions, circuit_breaks, loop_run, ran, resolved, error,
       call >>

\* an operation begins on coroutine c with get_tracker_with_session_start;
\* handle_reminder begins when the scheduler runs a pending job, once
Begin(c, operation) ==
    /\ executions[c].pc = "idle"
    /\ \E reminder_event \in
            IF operation = "handle_reminder"
            THEN { [ name |-> job.id, kill_on_user_message |-> k ] :
                        job \in jobs, k \in BOOLEAN }
            ELSE { NoReminder } :
        LET r == _update_tracker_session(from_events(store), StoppedClock(now),
                                         output_messages, jobs)
        IN  /\ Becomes(c, [ NoExecution EXCEPT
                                !.op = operation,
                                !.pc = "got_tracker",
                                !.tracker = r.tracker,
                                !.reminder = reminder_event ])
            /\ output_messages' = r.sent
            /\ jobs' = { job \in r.jobs : job.id # reminder_event.name }
    /\ UNCHANGED << single, store, steps >>

\* handle_message after log_message obtained the tracker: the message is
\* logged on it
LogMessage(c) ==
    /\ executions[c].pc = "got_tracker"
    /\ executions[c].op = "handle_message"
    /\ steps < MaxSteps
    /\ \E intent \in Intents :
        LET tr == update(executions[c].tracker, UserUttered(intent, now))
        IN  /\ Becomes(c, [ executions[c] EXCEPT !.tracker = tr, !.pc = "loop" ])
            /\ store' = log_message(FALSE, tr, store)
    /\ steps' = steps + 1
    /\ UNCHANGED << single, output_messages, jobs >>

\* handle_reminder after it obtained the tracker: an outdated reminder is
\* dropped, any other triggers its external message
HandleReminder(c) ==
    /\ executions[c].pc = "got_tracker"
    /\ executions[c].op = "handle_reminder"
    /\ IF reminder_is_outdated(executions[c].tracker, executions[c].reminder)
       THEN /\ Becomes(c, NoExecution)
            /\ UNCHANGED steps
       ELSE /\ steps < MaxSteps
            /\ Becomes(c, [ executions[c] EXCEPT
                    !.tracker = update(@, create_external(USER_INTENT_EXTERNAL, now)),
                    !.pc = "loop" ])
            /\ steps' = steps + 1
    /\ UNCHANGED << single, store, output_messages, jobs >>

\* trigger_external_user_uttered on the tracker its caller obtained
TriggerExternalUserUttered(c) ==
    /\ executions[c].pc = "got_tracker"
    /\ executions[c].op = "trigger_external_user_uttered"
    /\ steps < MaxSteps
    /\ \E intent_name \in Intents \cup { USER_INTENT_EXTERNAL } :
        Becomes(c, [ executions[c] EXCEPT
                        !.tracker = update(@, create_external(intent_name, now)),
                        !.pc = "loop" ])
    /\ steps' = steps + 1
    /\ UNCHANGED << single, store, output_messages, jobs >>

\* one iteration of the while loop of _predict_and_execute_next_action
LoopIteration(c) ==
    LET x == executions[c]
    IN  /\ x.pc = "loop"
        /\ loop_condition(x.tracker, x.num_predicted_actions,
                          x.should_predict_another)
        /\ steps < MaxSteps
        /\ \E ensemble \in EnsemblePredictions :
            LET p == predict_next_action(x.tracker, ensemble)
            IN  IF p.raised # NONE
                THEN /\ Becomes(c, [ x EXCEPT !.pc = "raised",
                                              !.error = p.raised,
                                              !.tracker = p.tracker ])
                     /\ UNCHANGED << output_messages, jobs, steps >>
                ELSE \E outcome \in ActionRun(p.action, p.tracker, carry_over_slots) :
                        LET r == _run_action(p.tracker, p.action, outcome, p.policy,
                                             p.confidence, StoppedClock(now),
                                             output_messages, jobs)
                        IN  /\ Becomes(c, [ x EXCEPT
                                    !.tracker = r.tracker,
                                    !.should_predict_another = r.result,
                                    !.num_predicted_actions = @ + 1 ])
                            /\ output_messages' = r.sent
                            /\ jobs' = r.jobs
                            /\ steps' = steps + 1
        /\ UNCHANGED << single, store >>

\* the while loop ends
LoopEnds(c) ==
    LET x == executions[c]
    IN  /\ x.pc = "loop"
        /\ ~loop_condition(x.tracker, x.num_predicted_actions,
                           x.should_predict_another)
        /\ Becomes(c, [ x EXCEPT !.pc = "save" ])
        /\ UNCHANGED << single, store, output_messages, jobs, steps >>

\* execute_action after it obtained the tracker
RunRequestedAction(c) ==
    LET x == executions[c]
    IN  /\ x.pc = "got_tracker"
        /\ x.op = "execute_action"
        /\ steps < MaxSteps
        /\ \E action_name \in RequestedActions :
            LET action == action_for_name(action_name)
            IN  IF action.raised # NONE
                THEN /\ Becomes(c, [ x EXCEPT !.pc = "raised",
                                              !.error = action.raised ])
                     /\ UNCHANGED << output_messages, jobs, steps >>
                ELSE \E outcome \in ActionRun(action_name, x.tracker, carry_over_slots) :
                        LET r == _run_action(x.tracker, action_name, outcome, NONE, -1,
                                             StoppedClock(now), output_messages, jobs)
                        IN  /\ Becomes(c, [ x EXCEPT !.tracker = r.tracker,
                                                      !.pc = "save" ])
                            /\ output_messages' = r.sent
                            /\ jobs' = r.jobs
                            /\ steps' = steps + 1
        /\ UNCHANGED << single, store >>

\* _save_tracker at the end of the operation
Save(c) ==
    /\ executions[c].pc = "save"
    /\ store' = executions[c].tracker.events
    /\ Becomes(c, NoExecution)
    /\ UNCHANGED << single, output_messages, jobs, steps >>

\* the operation ends with the exception
Fails(c) ==
    /\ executions[c].pc = "raised"
    /\ Becomes(c, NoExecution)
    /\ UNCHANGED << single, store, output_messages, jobs, steps >>

\* coroutine c is between obtaining its tracker and saving it
InFlight(c) == executions[c].pc # "idle"

\* a step of an execution in flight
Continue(c) ==
    \/ LogMessage(c)
    \/ HandleReminder(c)
    \/ TriggerExternalUserUttered(c)
    \/ LoopIteration(c)
    \/ LoopEnds(c)
    \/ RunRequestedAction(c)
    \/ Save(c)
    \/ Fails(c)

\* the event loop with two coroutines on one conversation: "a" executes
\* handle_message for the messages of the user, "b" what the scheduler and
\* the trigger_intent endpoint start; each goes on from its await whatever
\* the other is doing
ConcurrentNext ==
    \/ Begin("a", "handle_message")
    \/ \E operation \in { "handle_reminder", "trigger_external_user_uttered" } :
            Begin("b", operation)
    \/ \E c \in Coroutines : LogMessage(c)
    \/ \E c \in Coroutines : HandleReminder(c)
    \/ \E c \in Coroutines : TriggerExternalUserUttered(c)
    \/ \E c \in Coroutines : LoopIteration(c)
    \/ \E c \in Coroutines : LoopEnds(c)
    \/ \E c \in Coroutines : Save(c)
    \/ \E c \in Coroutines : Fails(c)

\* a processor with the least prediction limit and sessions that never expire
OperationsInit ==
    /\ Init
    /\ max_number_of_predictions = 1
    /\ session_expiration_time = 0

ConcurrentSpec == OperationsInit /\ [][ConcurrentNext]_vars

\* the operations one after the other, all on coroutine "a"
OperationsNext ==
    \/ \E operation \in Operations : Begin("a", operation)
    \/ Continue("a")

OperationsSpec == OperationsInit /\ [][OperationsNext]_vars

----------------------------------------------------------------------------
(* The reminders of several conversations in the scheduler of the process *)

\* a second conversation and a second reminder name
OTHER_SENDER_ID == "other_sender"
OTHER_REMINDER_NAME == "other_reminder"

Senders == { DEFAULT_SENDER_ID, OTHER_SENDER_ID }
ReminderNames == { REMINDER_NAME, OTHER_REMINDER_NAME }

\* the events of an action that _schedule_reminders looks at or passes over
ScheduledEvents ==
    { ReminderScheduled(name, ts) : name \in ReminderNames, ts \in 0..MaxTime }
        \cup { BotUttered(0) }

\* the events of an action that _cancel_reminders looks at or passes over
CancelledEvents ==
    { ReminderCancelled(name, 0) : name \in ReminderNames } \cup { BotUttered(0) }

\* the lists of one or two events of S
Lists(S) == { << e >> : e \in S } \cup { << e, f >> : e \in S, f \in S }

\* the variables of the processor but the scheduler's jobs
but_jobs ==
    << config, now, store, tracker, output_messages, pc, op, steps,
       should_predict_another, num_predicted_actions, circuit_breaks,
       loop_run, ran, resolved, error, executions >>

\* the scheduler has no job
SchedulerInit ==
    /\ AtRest
    /\ call = NoCall

\* _schedule_reminders for the events of an action in some conversation
ScheduleReminders ==
    /\ \E sender_id \in Senders, events \in Lists(ScheduledEvents) :
        /\ jobs' = _schedule_reminders(events, jobs, sender_id)
        /\ call' = [ op |-> "_schedule_reminders", sender_id |-> sender_id,
                     events |-> events, before |-> jobs ]
    /\ UNCHANGED but_jobs

\* _cancel_reminders for the events of an action in some conversation
CancelReminders ==
    /\ \E sender_id \in Senders, events \in Lists(CancelledEvents) :
        /\ jobs' = _cancel_reminders(events, jobs, sender_id)
        /\ call' = [ op |-> "_cancel_reminders", sender_id |-> sender_id,
                     events |-> events, before |-> jobs ]
    /\ UNCHANGED but_jobs

SchedulerNext ==
    \/ ScheduleReminders
    \/ CancelReminders

SchedulerSpec == SchedulerInit /\ [][SchedulerNext]_vars

----------------------------------------------------------------------------
(* The rule policy (rasa.core.policies.rule_policy).  A turn state is a     *)
(* function from the sub-state types it has ("user", "slots",               *)
(* "prev_action", "active_loop") to sub-states, and a sub-state a function  *)
(* from its keys to text.  A rule key is the JSON text of a list of turn     *)
(* states, and a lookup table a list of entries in insertion order.          *)

SHOULD_NOT_BE_SET == "should_not_be_set"
DO_NOT_VALIDATE_LOOP == "do_not_validate_loop"
DO_NOT_PREDICT_LOOP_ACTION == "do_not_predict_loop_action"
LOOP_ACTION_NAME == "form"

\* {}: a turn state without sub-states, a sub-state without keys
EmptyDict == [ k \in {} |-> "" ]

\* d.get(key), d.get(key, default)
get(d, key, default) == IF key \in DOMAIN d THEN d[key] ELSE default

\* the keys of the dictionaries of the model in sorted order (sort_keys=True)
SortedKeys ==
    << "action_name", "active_loop", "entities", "intent", SLOT_NAME, "name",
       "prev_action", "slots", "user" >>

RECURSIVE join(_, _)
\* separator.join(texts)
join(texts, separator) ==
    IF texts = << >> THEN ""
    ELSE IF Len(texts) = 1 THEN texts[1]
    ELSE texts[1] \o separator \o join(Tail(texts), separator)

\* json.dumps(d, sort_keys=True) of a dictionary, given the JSON text of each
\* of its values
dumps_dict(dumped) ==
    LET keys == SelectSeq(SortedKeys, LAMBDA k : k \in DOMAIN dumped)
    IN  "{" \o join([ i \in 1..Len(keys) |->
                        "\"" \o keys[i] \o "\": " \o dumped[keys[i]] ], ", ")
            \o "}"

\* json.dumps(states, sort_keys=True): the feature key of a list of turn states
dumps(states) ==
    LET dumps_tuple(texts) ==
            "[" \o join([ i \in 1..Len(texts) |-> "\"" \o texts[i] \o "\"" ], ", ")
                \o "]"
        dumps_sub_state(sub_state) ==
            dumps_dict([ key \in DOMAIN sub_state |->
                            IF key = "entities" THEN dumps_tuple(sub_state[key])
                            ELSE "\"" \o sub_state[key] \o "\"" ])
        dumps_state(state) ==
            dumps_dict([ state_type \in DOMAIN state |->
                            dumps_sub_state(state[state_type]) ])
    IN  "[" \o join([ i \in 1..Len(states) |-> dumps_state(states[i]) ], ", ")
            \o "]"

\* the turn states of the model
Greeted == "user" :> ("intent" :> USER_INTENT_GREET)
Listened == "prev_action" :> ("action_name" :> ACTION_LISTEN_NAME)
Filled == "slots" :> (SLOT_NAME :> "set")
InLoop == "active_loop" :> ("name" :> LOOP_ACTION_NAME)

\* the histories of a live conversation (featurizer.prediction_states)
Conversations ==
    { << Greeted @@ Listened >>,
      << EmptyDict, Greeted @@ Listened >>,
      << Greeted @@ Listened @@ Filled >>,
      << Greeted @@ Listened @@ InLoop >>,
      << Listened, Greeted @@ Listened @@ InLoop >> }

\* the turn states a rule or a conversation can have: with or without an
\* intent, a value of the slot, a previous action and an active loop
TurnStates ==
    { user @@ slots @@ prev_action @@ active_loop :
        user \in { EmptyDict, Greeted, "user" :> ("intent" :> "bye") },
        slots \in { EmptyDict, Filled, "slots" :> (SLOT_NAME :> "other"),
                    "slots" :> (SLOT_NAME :> SHOULD_NOT_BE_SET) },
        prev_action \in { EmptyDict, Listened },
        active_loop \in { EmptyDict, InLoop } }

\* the lists of turn states the rules of the model were trained from
RuleStates ==
    { << Greeted >>,
      << Filled >>,
      << Greeted @@ Listened >>,
      << EmptyDict, Greeted @@ Listened >>,
      << Greeted @@ InLoop >>,
      << "user" :> ("intent" :> "bye") >> }

\* the lists of turn states of the auxiliary rules for the unhappy paths of a loop
\* (_states_for_unhappy_loop_predictions: the last turn, with or without the
\* action before it)
LoopUnhappyStates ==
    { << Greeted @@ Listened @@ InLoop >>,
      << "prev_action" :> ("action_name" :> LOOP_ACTION_NAME),
         Greeted @@ Listened @@ InLoop >> }

\* the feature key of every list of turn states of the model
feature_keys ==
    [ states \in RuleStates \cup LoopUnhappyStates
                    \cup { << state >> : state \in TurnStates } |-> dumps(states) ]

\* json.loads of a rule key
_rule_key_to_state(rule_key) ==
    CHOOSE states \in DOMAIN feature_keys : feature_keys[states] = rule_key

\* reversed(states)
Reversed(states) == [ i \in 1..Len(states) |-> states[Len(states) + 1 - i] ]

\* the comparison without the case of the value that should not be set
_does_rule_match_state_comparing_all(rule_state, conversation_state) ==
    \A state_type \in DOMAIN rule_state :
        \A key \in DOMAIN rule_state[state_type] :
            get(get(conversation_state, state_type, EmptyDict), key, NONE)
                = rule_state[state_type][key]

\* the comparison that lets a rule state match only a conversation state
\* with the same sub-states
_does_rule_match_state_of_same_types(rule_state, conversation_state) ==
    /\ DOMAIN conversation_state = DOMAIN rule_state
    /\ \A state_type \in DOMAIN rule_state :
        \A key \in DOMAIN rule_state[state_type] :
            get(conversation_state[state_type], key, NONE) = rule_state[state_type][key]

_does_rule_match_state(rule_state, conversation_state) ==
    \A state_type \in DOMAIN rule_state :
        LET rule_sub_state == rule_state[state_type]
            conversation_sub_state == get(conversation_state, state_type, EmptyDict)
        IN  \A key \in DOMAIN rule_sub_state :
                LET value == rule_sub_state[key]
                    found == get(conversation_sub_state, key, NONE)
                    \* a value Python takes as true: neither None nor empty
                    Truthy(v) == v /= NONE /\ v /= ""
                IN  ~ \/ /\ Truthy(value)
                         /\ value /= SHOULD_NOT_BE_SET
                         /\ found /= value
                      \/ /\ value = SHOULD_NOT_BE_SET
                         /\ Truthy(found)

\* the test without the conditions on empty turn states
_is_rule_applicable_to_any_turn(rule_key, turn_index, conversation_state) ==
    LET reversed_rule_states == Reversed(_rule_key_to_state(rule_key))
    IN  \/ turn_index >= Len(reversed_rule_states)
        \/ _does_rule_match_state(reversed_rule_states[turn_index + 1],
                                  conversation_state)

\* turn_index counts the turns back from the most recent one, from 0
_is_rule_applicable(rule_key, turn_index, conversation_state) ==
    LET reversed_rule_states == Reversed(_rule_key_to_state(rule_key))
        rule_state == reversed_rule_states[turn_index + 1]
    IN  \/ turn_index >= Len(reversed_rule_states)
        \/ rule_state = EmptyDict /\ conversation_state = EmptyDict
        \/ /\ rule_state /= EmptyDict
           /\ conversation_state /= EmptyDict
           /\ _does_rule_match_state(rule_state, conversation_state)

\* the keys whose rules are no longer than the conversation and applicable at
\* every turn
_get_possible_keys_within_history(lookup, states) ==
    { key \in { lookup[i].key : i \in 1..Len(lookup) } :
        /\ Len(_rule_key_to_state(key)) <= Len(states)
        /\ \A i \in 1..Len(states) :
            _is_rule_applicable(key, i - 1, Reversed(states)[i]) }

\* the set of keys of a lookup that are applicable at every turn of states
_get_possible_keys(lookup, states) ==
    { key \in { lookup[i].key : i \in 1..Len(lookup) } :
        \A i \in 1..Len(states) :
            _is_rule_applicable(key, i - 1, Reversed(states)[i]) }

\* lookup.get(key)
lookup_get(lookup, key) ==
    IF \E i \in 1..Len(lookup) : lookup[i].key = key
    THEN lookup[CHOOSE i \in 1..Len(lookup) : lookup[i].key = key].value
    ELSE NONE

\* the keys of minimum length
shortest_keys(rule_keys) ==
    { key \in rule_keys : \A other \in rule_keys : Len(key) <= Len(other) }

\* max(rule_keys, key=len) returns the first key of maximum length in the
\* iteration order of the set rule_keys, which is the order of the hashes of
\* the keys: the keys it can return
max_by_len(rule_keys) ==
    { key \in rule_keys : \A other \in rule_keys : Len(other) <= Len(key) }

\* get_active_loop_name of rasa.core.trackers
get_active_loop_name(state) ==
    LET name == get(get(state, "active_loop", EmptyDict), "name", NONE)
    IN  IF name = SHOULD_NOT_BE_SET THEN NONE ELSE name

\* the event of rasa.core.events the policy applies to the tracker
FormValidation(validate) == [ type |-> "form_validation", validate |-> validate ]

\* the action of the selected rule is returned whatever the loop
_find_action_from_rules_keeping_listen(rules, loop_unhappy, states, active_loop_name, best_rule_key) ==
    LET rule_keys == _get_possible_keys(rules, states)
        unhappy_path_conditions ==
            { lookup_get(loop_unhappy, key) :
                key \in _get_possible_keys(loop_unhappy, states) }
    IN  [ action |-> IF rule_keys /= {} THEN lookup_get(rules, best_rule_key)
                     ELSE NONE,
          updates |-> IF active_loop_name /= NONE
                            /\ DO_NOT_VALIDATE_LOOP \in unhappy_path_conditions
                      THEN << FormValidation(FALSE) >> ELSE << >> ]

\* only the condition of the longest matching auxiliary key is consulted
_find_action_from_rules_longest_unhappy_key(rules, loop_unhappy, states, active_loop_name, best_rule_key) ==
    LET rule_keys == _get_possible_keys(rules, states)
        predicted_action_name ==
            IF rule_keys /= {} THEN lookup_get(rules, best_rule_key) ELSE NONE
        unhappy_path_conditions ==
            { lookup_get(loop_unhappy, key) :
                key \in max_by_len(_get_possible_keys(loop_unhappy, states)) }
        last_state(rule_key) ==
            _rule_key_to_state(rule_key)[Len(_rule_key_to_state(rule_key))]
        predicted_listen_from_general_rule ==
            /\ predicted_action_name = ACTION_LISTEN_NAME
            /\ get_active_loop_name(last_state(best_rule_key)) = NONE
        updates ==
            IF DO_NOT_VALIDATE_LOOP \in unhappy_path_conditions
            THEN << FormValidation(FALSE) >> ELSE << >>
    IN  IF active_loop_name = NONE
        THEN [ action |-> predicted_action_name, updates |-> << >> ]
        ELSE IF predicted_listen_from_general_rule
             THEN IF DO_NOT_PREDICT_LOOP_ACTION \notin unhappy_path_conditions
                  THEN [ action |-> active_loop_name, updates |-> << >> ]
                  ELSE [ action |-> NONE, updates |-> updates ]
             ELSE [ action |-> predicted_action_name, updates |-> updates ]

\* _find_action_from_rules when max returns best_rule_key: the action name it
\* returns and the events it applies to the tracker
_find_action_from_rules(rules, loop_unhappy, states, active_loop_name, best_rule_key) ==
    LET rule_keys == _get_possible_keys(rules, states)
        predicted_action_name ==
            IF rule_keys /= {} THEN lookup_get(rules, best_rule_key) ELSE NONE
        loop_unhappy_keys == _get_possible_keys(loop_unhappy, states)
        unhappy_path_conditions ==
            { lookup_get(loop_unhappy, key) : key \in loop_unhappy_keys }
        last_state(rule_key) ==
            _rule_key_to_state(rule_key)[Len(_rule_key_to_state(rule_key))]
        predicted_listen_from_general_rule ==
            /\ predicted_action_name = ACTION_LISTEN_NAME
            /\ get_active_loop_name(last_state(best_rule_key)) = NONE
        updates ==
            IF DO_NOT_VALIDATE_LOOP \in unhappy_path_conditions
            THEN << FormValidation(FALSE) >> ELSE << >>
    IN  IF active_loop_name = NONE
        THEN [ action |-> predicted_action_name, updates |-> << >> ]
        ELSE IF predicted_listen_from_general_rule
             THEN IF DO_NOT_PREDICT_LOOP_ACTION \notin unhappy_path_conditions
                  THEN [ action |-> active_loop_name, updates |-> << >> ]
                  ELSE [ action |-> NONE, updates |-> updates ]
             ELSE [ action |-> predicted_action_name, updates |-> updates ]

\* the lookup tables of at most n entries, one per list of turn states
Lookups(state_lists, values, n) ==
    LET entries == { [ key |-> dumps(states), value |-> v ] :
                        states \in state_lists, v \in values }
    IN  { lookup \in UNION { [ 1..m -> entries ] : m \in 0..n } :
            \A i, j \in 1..Len(lookup) : i /= j => lookup[i].key /= lookup[j].key }

\* the auxiliary lookup tables of at most two entries; such a table is only
\* read by key, so one order of insertion stands for the other
LoopUnhappyLookups ==
    { lookup \in Lookups(LoopUnhappyStates,
                         { DO_NOT_VALIDATE_LOOP, DO_NOT_PREDICT_LOOP_ACTION }, 2) :
        \A i \in 1..(Len(lookup) - 1) : Len(lookup[i].key) < Len(lookup[i + 1].key) }

\* a call of _find_action_from_rules of a trained policy: any lookup tables
\* and any conversation
RuleInit ==
    /\ AtRest
    /\ \E rules \in Lookups(RuleStates, { ACTION_LISTEN_NAME, ACTION_CUSTOM }, MaxRules),
          loop_unhappy \in LoopUnhappyLookups,
          states \in Conversations :
            call = [ op |-> "_find_action_from_rules", rules |-> rules,
                     loop_unhappy |-> loop_unhappy, states |-> states,
                     active_loop_name |-> get_active_loop_name(states[Len(states)]),
                     done |-> FALSE, best_rule_key |-> "", action |-> NONE,
                     updates |-> << >> ]

\* the call returns
FindActionFromRules ==
    /\ call.op = "_find_action_from_rules"
    /\ ~call.done
    /\ LET rule_keys == _get_possible_keys(call.rules, call.states)
       IN  \E best_rule_key \in IF rule_keys = {} THEN { "" } ELSE max_by_len(rule_keys) :
            LET found == _find_action_from_rules(call.rules, call.loop_unhappy,
                                                 call.states, call.active_loop_name,
                                                 best_rule_key)
            IN  call' = [ call EXCEPT !.done = TRUE,
                                      !.best_rule_key = best_rule_key,
                                      !.action = found.action,
                                      !.updates = found.updates ]
    /\ UNCHANGED processor

RuleSpec == RuleInit /\ [][FindActionFromRules]_vars

\* a call of _is_rule_applicable for the most recent turn of a rule of one
\* turn: any turn state of the rule, any turn state of the conversation
MatchInit ==
    /\ AtRest
    /\ \E rule_state \in TurnStates, conversation_state \in TurnStates :
        call = [ op |-> "_is_rule_applicable", rule_state |-> rule_state,
                 conversation_state |-> conversation_state, done |-> FALSE,
                 matches |-> FALSE, applicable |-> FALSE ]

\* the call returns; matches is what _does_rule_match_state gives for the
\* two turn states
IsRuleApplicable ==
    /\ call.op = "_is_rule_applicable"
    /\ ~call.done
    /\ call' = [ call EXCEPT
                    !.done = TRUE,
                    !.matches = _does_rule_match_state(call.rule_state,
                                                       call.conversation_state),
                    !.applicable = _is_rule_applicable(
                                        dumps(<< call.rule_state >>), 0,
                                        call.conversation_state) ]
    /\ UNCHANGED processor

MatchSpec == MatchInit /\ [][IsRuleApplicable]_vars

\* the previous action that stands for the unknown start of a rule snippet
RULE_SNIPPET_ACTION_NAME == "..."

_is_rule_snippet_state(state) ==
    get(get(state, "prev_action", EmptyDict), "action_name", NONE)
        = RULE_SNIPPET_ACTION_NAME

\* the key of the states from the oldest rule snippet state on
_create_feature_key_from_first_snippet(states) ==
    LET snippets == { i \in 1..Len(states) : _is_rule_snippet_state(states[i]) }
        new_states ==
            IF snippets = {} THEN states
            ELSE SubSeq(states, 1 + (CHOOSE i \in snippets :
                                        \A j \in snippets : i <= j), Len(states))
    IN  IF new_states = << >> THEN NONE ELSE dumps(new_states)

\* the states are taken from the most recent one backwards until a rule
\* snippet state is met; None (NONE) when no state is taken
_create_feature_key(states) ==
    LET RECURSIVE taken(_)
        taken(earlier) ==
            IF earlier = << >> \/ _is_rule_snippet_state(earlier[Len(earlier)])
            THEN << >>
            ELSE Append(taken(SubSeq(earlier, 1, Len(earlier) - 1)),
                        earlier[Len(earlier)])
        new_states == taken(states)
    IN  IF new_states = << >> THEN NONE ELSE dumps(new_states)

_remove_rule_snippet_predictions(lookup) ==
    SelectSeq(lookup, LAMBDA entry : entry.value /= RULE_SNIPPET_ACTION_NAME)

\* the training of the rules: a list of up to three turn states of a rule
\* tracker, with or without rule snippet states, whose key is created, and a
\* lookup table built from such keys, whose rule snippet predictions are removed
FeatureInit ==
    /\ AtRest
    /\ \E states \in UNION { [ 1..n -> { EmptyDict, Greeted @@ Listened,
                "prev_action" :> ("action_name" :> RULE_SNIPPET_ACTION_NAME),
                Greeted @@ "prev_action" :> ("action_name" :> RULE_SNIPPET_ACTION_NAME) } ] :
                                n \in 0..3 },
          rules_lookup \in Lookups({ << Greeted >>, << Filled >> },
                                   { ACTION_LISTEN_NAME, ACTION_CUSTOM,
                                     RULE_SNIPPET_ACTION_NAME }, 2) :
            call = [ op |-> "train", states |-> states, rules_lookup |-> rules_lookup,
                     created |-> FALSE, feature_key |-> NONE,
                     removed |-> FALSE, rules |-> << >> ]

\* _create_feature_key returns
CreateFeatureKey ==
    /\ call.op = "train"
    /\ ~call.created
    /\ call' = [ call EXCEPT !.created = TRUE,
                             !.feature_key = _create_feature_key(call.states) ]
    /\ UNCHANGED processor

\* lookup[RULES] = _remove_rule_snippet_predictions(rules_lookup)
RemoveRuleSnippetPredictions ==
    /\ call.op = "train"
    /\ ~call.removed
    /\ call' = [ call EXCEPT !.removed = TRUE,
                             !.rules = _remove_rule_snippet_predictions(call.rules_lookup) ]
    /\ UNCHANGED processor

FeatureSpec ==
    FeatureInit /\ [][CreateFeatureKey \/ RemoveRuleSnippetPredictions]_vars

----------------------------------------------------------------------------
(* The predictions of the rule policy and of the form policy.  The tracker  *)
(* of a prediction is what the policies read of it: the latest action, the  *)
(* intent of the latest message (NONE without a message), the active loop,  *)
(* whether the loop rejected, and what a policy changes: the events and the *)
(* validation flag of the loop.  Confidences are in tenths.                 *)

\* These are Rasa Open Source default actions and overrule everything
DEFAULT_ACTION_MAPPINGS ==
    (USER_INTENT_RESTART :> ACTION_RESTART_NAME)
        @@ ("back" :> "action_back")
        @@ ("session_start" :> ACTION_SESSION_START_NAME)

ACTION_DEFAULT_FALLBACK_NAME == "action_default_fallback"

\* the confidence of the fallback action, in tenths (0.3)
core_fallback_threshold == 3

\* the actions of the domain of the policies
policy_action_names ==
    action_names \o << "action_back", ACTION_DEFAULT_FALLBACK_NAME, LOOP_ACTION_NAME >>

\* the trackers a prediction is asked for
PolicyTrackers ==
    { tr \in [ latest_action_name : { ACTION_LISTEN_NAME, LOOP_ACTION_NAME, ACTION_CUSTOM },
               latest_intent : { NONE } \cup DOMAIN DEFAULT_ACTION_MAPPINGS
                                        \cup { USER_INTENT_GREET },
               active_loop_name : { NONE, LOOP_ACTION_NAME },
               rejected : BOOLEAN, validate : { TRUE }, events : { << >> } ] :
        tr.rejected => tr.active_loop_name /= NONE }

\* featurizer.prediction_states([tracker], domain)[0]: the active states of
\* the tracker (Domain.get_active_states), empty sub-states left out
prediction_states(tr) ==
    << (IF tr.latest_intent = NONE THEN EmptyDict
        ELSE "user" :> ("intent" :> tr.latest_intent))
       @@ ("prev_action" :> ("action_name" :> tr.latest_action_name))
       @@ (IF tr.active_loop_name = NONE THEN EmptyDict ELSE InLoop) >>

\* tracker.update(event) for the events of a policy
update_by_policy(tr, events) ==
    IF events = << >> THEN tr
    ELSE [ tr EXCEPT !.events = @ \o events,
                     !.validate = events[Len(events)].validate ]

\* the predictions without a fallback action
_default_predictions_of_zeros(enable_fallback_prediction) ==
    [ i \in 1..Len(policy_action_names) |-> 0 ]

_default_predictions(enable_fallback_prediction) ==
    [ i \in 1..Len(policy_action_names) |->
        IF enable_fallback_prediction
            /\ policy_action_names[i] = ACTION_DEFAULT_FALLBACK_NAME
        THEN core_fallback_threshold ELSE 0 ]

\* MemoizationPolicy._prediction_result: the default predictions with the
\* confidence 1.0 for the action
_prediction_result(action_name, default) ==
    [ i \in 1..Len(default) |->
        IF policy_action_names[i] = action_name THEN 10 ELSE default[i] ]

_find_action_from_default_actions(tr) ==
    IF tr.latest_action_name /= ACTION_LISTEN_NAME \/ tr.latest_intent = NONE
    THEN NONE
    ELSE get(DEFAULT_ACTION_MAPPINGS, tr.latest_intent, NONE)

\* the loop is predicted, action_listen after the loop is not
_find_action_from_loop_happy_path_without_listen(tr) ==
    IF /\ tr.active_loop_name /= NONE
       /\ ~tr.rejected
       /\ tr.latest_action_name /= tr.active_loop_name
    THEN tr.active_loop_name
    ELSE NONE

_find_action_from_loop_happy_path(tr) ==
    LET active_loop_name == tr.active_loop_name
        should_predict_loop ==
            /\ active_loop_name /= NONE
            /\ ~tr.rejected
            /\ tr.latest_action_name /= active_loop_name
        should_predict_listen ==
            /\ active_loop_name /= NONE
            /\ ~tr.rejected
            /\ tr.latest_action_name = active_loop_name
    IN  IF should_predict_loop THEN active_loop_name
        ELSE IF should_predict_listen THEN ACTION_LISTEN_NAME
        ELSE NONE

\* the loop is consulted before the default actions
predict_action_probabilities_loop_first(policy, tr, best_rule_key) ==
    LET loop_happy_path_action_name == _find_action_from_loop_happy_path(tr)
        default_action_name == _find_action_from_default_actions(tr)
        result == _default_predictions(policy.enable_fallback_prediction)
    IN  IF loop_happy_path_action_name /= NONE
        THEN [ result |-> _prediction_result(loop_happy_path_action_name, result),
               tracker |-> tr ]
        ELSE IF default_action_name /= NONE
        THEN [ result |-> _prediction_result(default_action_name, result),
               tracker |-> tr ]
        ELSE [ result |-> result, tracker |-> tr ]

\* RulePolicy.predict_action_probabilities when max returns best_rule_key: the
\* predictions it returns and the tracker it leaves
predict_action_probabilities(policy, tr, best_rule_key) ==
    LET result == _default_predictions(policy.enable_fallback_prediction)
        default_action_name == _find_action_from_default_actions(tr)
        loop_happy_path_action_name == _find_action_from_loop_happy_path(tr)
        found == _find_action_from_rules(policy.rules, policy.loop_unhappy,
                                         prediction_states(tr),
                                         tr.active_loop_name, best_rule_key)
    IN  IF default_action_name /= NONE
        THEN [ result |-> _prediction_result(default_action_name, result),
               tracker |-> tr ]
        ELSE IF loop_happy_path_action_name /= NONE
        THEN [ result |-> _prediction_result(loop_happy_path_action_name, result),
               tracker |-> tr ]
        ELSE [ result |-> IF found.action /= NONE
                          THEN _prediction_result(found.action, result)
                          ELSE result,
               tracker |-> update_by_policy(tr, found.updates) ]

\* FormPolicy._modified_states
_modified_states(states) ==
    << IF Len(states) = 1 \/ states[1] = EmptyDict THEN EmptyDict
       ELSE "prev_action" :> states[1]["prev_action"],
       states[Len(states)] >>

\* FormPolicy.state_is_unhappy; the key of the memorized states is taken to
\* be the key of the rule policy
state_is_unhappy(lookup, tr) ==
    LET memorized_form ==
            lookup_get(lookup, dumps(_modified_states(prediction_states(tr))))
    IN  memorized_form /= NONE /\ memorized_form = tr.active_loop_name

\* FormPolicy.predict_action_probabilities
form_predict_action_probabilities(lookup, tr) ==
    LET result == _default_predictions(FALSE)
    IN  IF tr.active_loop_name = NONE THEN [ result |-> result, tracker |-> tr ]
        ELSE IF tr.latest_action_name = ACTION_LISTEN_NAME
        THEN IF tr.rejected /\ state_is_unhappy(lookup, tr)
             THEN [ result |-> result,
                    tracker |-> update_by_policy(tr, << FormValidation(FALSE) >>) ]
             ELSE [ result |-> _prediction_result(tr.active_loop_name, result),
                    tracker |-> tr ]
        ELSE IF tr.latest_action_name = tr.active_loop_name
        THEN [ result |-> _prediction_result(ACTION_LISTEN_NAME, result),
               tracker |-> tr ]
        ELSE [ result |-> result, tracker |-> tr ]

\* a policy is asked for a prediction: a rule policy with any lookup tables
\* of at most one rule and with or without the fallback, or a form policy
\* with or without the memorized state of its form, and any tracker
PredictInit ==
    /\ AtRest
    /\ \E tr \in PolicyTrackers :
        \/ \E rules \in Lookups(RuleStates, { ACTION_LISTEN_NAME, ACTION_CUSTOM }, 1),
              loop_unhappy \in LoopUnhappyLookups,
              enable_fallback_prediction \in BOOLEAN :
                call = [ op |-> "RulePolicy.predict_action_probabilities",
                         policy |-> [ rules |-> rules, loop_unhappy |-> loop_unhappy,
                                      enable_fallback_prediction |->
                                            enable_fallback_prediction ],
                         tracker |-> tr, done |-> FALSE,
                         result |-> << >>, tracker_after |-> tr ]
        \/ \E lookup \in Lookups({ << EmptyDict, Greeted @@ Listened @@ InLoop >> },
                                 { LOOP_ACTION_NAME }, 1) :
                call = [ op |-> "FormPolicy.predict_action_probabilities",
                         policy |-> [ rules |-> lookup, loop_unhappy |-> << >>,
                                      enable_fallback_prediction |-> FALSE ],
                         tracker |-> tr, done |-> FALSE,
                         result |-> << >>, tracker_after |-> tr ]

\* the rule policy returns its prediction
RulePolicyPredicts ==
    /\ call.op = "RulePolicy.predict_action_probabilities"
    /\ ~call.done
    /\ LET rule_keys == _get_possible_keys(call.policy.rules,
                                           prediction_states(call.tracker))
       IN  \E best_rule_key \in IF rule_keys = {} THEN { "" } ELSE max_by_len(rule_keys) :
            LET predicted == predict_action_probabilities(call.policy, call.tracker,
                                                          best_rule_key)
            IN  call' = [ call EXCEPT !.done = TRUE,
                                      !.result = predicted.result,
                                      !.tracker_after = predicted.tracker ]
    /\ UNCHANGED processor

\* the form policy returns its prediction
FormPolicyPredicts ==
    /\ call.op = "FormPolicy.predict_action_probabilities"
    /\ ~call.done
    /\ LET predicted == form_predict_action_probabilities(call.policy.rules,
                                                          call.tracker)
       IN  call' = [ call EXCEPT !.done = TRUE,
                                 !.result = predicted.result,
                                 !.tracker_after = predicted.tracker ]
    /\ UNCHANGED processor

PredictSpec == PredictInit /\ [][RulePolicyPredicts \/ FormPolicyPredicts]_vars

----------------------------------------------------------------------------
(* Two predictions in a row on a tracker, a follow-up action pending or not *)

\* the trackers a prediction is asked for: after a custom action that asked
\* for a follow-up action of the domain, and after one that asked for none
FollowupTrackers ==
    { from_events(<< UserUttered(USER_INTENT_GREET, 0),
                     ActionExecuted(ACTION_CUSTOM, POLICY_NAME, 1, 0) >> \o events) :
        events \in { << FollowupAction(action_names[i], 0) >> : i \in 1..num_actions }
                        \cup { << >>, << SlotSet(SLOT_NAME, 0) >> } }

\* the tracker and the answers the policy ensemble gives if it is asked
FollowupInit ==
    /\ AtRest
    /\ \E tr \in FollowupTrackers,
          ensemble \in [ 1..2 -> EnsemblePredictions ] :
            call = [ op |-> "_get_next_action_probabilities", tracker |-> tr,
                     ensemble |-> ensemble, results |-> << >> ]

\* one call of _get_next_action_probabilities on the tracker as the call
\* before left it
GetNextActionProbabilities ==
    /\ call.op = "_get_next_action_probabilities"
    /\ Len(call.results) < 2
    /\ LET tr == IF call.results = << >> THEN call.tracker
                 ELSE call.results[Len(call.results)].tracker
       IN  call' = [ call EXCEPT !.results = Append(@,
                        _get_next_action_probabilities(tr,
                            call.ensemble[Len(call.results) + 1])) ]
    /\ UNCHANGED processor

FollowupSpec == FollowupInit /\ [][GetNextActionProbabilities]_vars

----------------------------------------------------------------------------
(* The construction of a domain (Domain.__init__).  A domain is given the   *)
(* names of its custom actions, of its responses, forms, action texts,      *)
(* slots and entities, each list in the order of the domain file, and the   *)
(* action its intent triggers, NONE when the intent has no "triggers".      *)

\* rasa.core.actions.action.default_action_names, as far as the model has
\* default actions
default_action_names ==
    << ACTION_LISTEN_NAME, ACTION_RESTART_NAME, ACTION_SESSION_START_NAME >>

\* the members of a list
Members(items) == { items[i] : i \in 1..Len(items) }

\* [item for item in items if item not in others]
RECURSIVE not_in(_, _)
not_in(items, others) ==
    IF items = << >> THEN << >>
    ELSE IF Head(items) \in others THEN not_in(Tail(items), others)
         ELSE << Head(items) >> \o not_in(Tail(items), others)

\* action.combine_with_templates: the responses that are not actions already
\* are added, in sorted order
combine_with_templates(actions, templates) ==
    LET sorted == SelectSeq(<< "utter_bye", "utter_greet" >>,
                            LAMBDA name : name \in templates)
    IN  actions \o not_in(sorted, Members(actions))

\* action.combine_user_with_default_actions: the user actions that overwrite
\* default actions are removed from the user's list
combine_user_with_default_actions(user_actions) ==
    default_action_names \o not_in(user_actions, Members(default_action_names))

\* _check_domain_sanity that does not look at the slots
_check_domain_sanity_without_slots(domain) ==
    LET get_duplicates(my_items) ==
            { my_items[i] : i \in { j \in 1..Len(my_items) :
                \E k \in 1..Len(my_items) : k # j /\ my_items[k] = my_items[j] } }
        incorrect_mappings ==
            IF domain.triggers # NONE /\ domain.triggers \notin Members(domain.action_names)
            THEN { domain.triggers } ELSE {}
    IN  IF \/ get_duplicates(domain.action_names) # {}
           \/ get_duplicates(domain.entities) # {}
           \/ incorrect_mappings # {}
        THEN "InvalidDomain" ELSE NONE

\* Domain._check_domain_sanity: the exception it raises, or NONE
_check_domain_sanity(domain) ==
    LET get_duplicates(my_items) ==
            { my_items[i] : i \in { j \in 1..Len(my_items) :
                \E k \in 1..Len(my_items) : k # j /\ my_items[k] = my_items[j] } }
        incorrect_mappings ==
            IF domain.triggers # NONE /\ domain.triggers \notin Members(domain.action_names)
            THEN { domain.triggers } ELSE {}
    IN  IF \/ get_duplicates(domain.action_names) # {}
           \/ get_duplicates(domain.slots) # {}
           \/ get_duplicates(domain.entities) # {}
           \/ incorrect_mappings # {}
        THEN "InvalidDomain" ELSE NONE

\* Domain.__init__: the attributes of the domain under construction and the
\* exception that ends the construction, or NONE
Domain(triggers, entities, slots, templates, custom_actions, forms, action_texts) ==
    LET user_actions == combine_with_templates(custom_actions, templates)
        domain ==
            [ triggers |-> triggers,
              entities |-> entities,
              form_names |-> forms,
              slots |-> slots,
              user_actions |-> user_actions,
              action_names |-> combine_user_with_default_actions(user_actions)
                                    \o forms \o action_texts ]
    IN  [ domain |-> domain, raised |-> _check_domain_sanity(domain) ]

\* the lists of at most MaxNames names taken from a set
NameLists(names) == UNION { [ 1..n -> names ] : n \in 0..MaxNames }

\* the arguments of a construction
DomainInit ==
    /\ AtRest
    /\ \E triggers \in { NONE, ACTION_CUSTOM, ACTION_UNKNOWN, "utter_greet" },
          entities \in NameLists({ "city", "name" }),
          slots \in NameLists({ SLOT_NAME, "requested_slot" }),
          templates \in { {}, { "utter_greet" }, { "utter_greet", "utter_bye" } },
          custom_actions \in NameLists({ ACTION_CUSTOM, ACTION_LISTEN_NAME, LOOP_ACTION_NAME }),
          forms \in { << >>, << LOOP_ACTION_NAME >> },
          action_texts \in { << >>, << "utter_greet" >> } :
            call = [ op |-> "Domain", triggers |-> triggers, entities |-> entities,
                     slots |-> slots, templates |-> templates,
                     custom_actions |-> custom_actions, forms |-> forms,
                     action_texts |-> action_texts,
                     done |-> FALSE, raised |-> NONE, action_names |-> << >> ]

\* the constructor returns the domain or raises
Construct ==
    /\ call.op = "Domain"
    /\ ~call.done
    /\ LET r == Domain(call.triggers, call.entities, call.slots, call.templates,
                       call.custom_actions, call.forms, call.action_texts)
       IN  call' = [ call EXCEPT !.done = TRUE,
                                 !.raised = r.raised,
                                 !.action_names = r.domain.action_names ]
    /\ UNCHANGED processor

DomainSpec == DomainInit /\ [][Construct]_vars

----------------------------------------------------------------------------
(* The entities of the user sub-state (Domain._get_user_sub_state).  The    *)
(* properties of an intent are use_entities (all, or a list of names) and   *)
(* ignore_entities; a message has an intent and the names of its entities   *)
(* in the order they were extracted.                                        *)

\* the names of the entities of the model, sorted; "time" is not an entity of
\* the domain
EntityNames == << "city", "name", "time" >>
domain_entities == << "city", "name" >>

\* list.sort() of a set of entity names
sorted_entities(names) == SelectSeq(EntityNames, LAMBDA name : name \in names)

\* tuple(a_set): the elements in the order the iteration of the set gives
\* them, which is any order
tuple_of_set(a_set) ==
    { t \in [ 1..Cardinality(a_set) -> a_set ] : Members(t) = a_set }

\* the transformation with the explicit inclusion taking precedence
_transform_intent_properties_inclusion_first(properties, entities) ==
    LET included_entities ==
            IF properties.use_entities.all THEN Members(entities)
            ELSE Members(properties.use_entities.names)
        excluded_entities ==
            IF properties.use_entities.all THEN Members(properties.ignore_entities)
            ELSE {}
    IN  "used_entities" :> sorted_entities(included_entities \ excluded_entities)

\* Domain._transform_intent_properties_for_internal_use: the properties of
\* the intent as the domain keeps them
_transform_intent_properties_for_internal_use(properties, entities) ==
    LET included_entities ==
            IF properties.use_entities.all THEN Members(entities)
            ELSE Members(properties.use_entities.names)
        excluded_entities == Members(properties.ignore_entities)
    IN  "used_entities" :> sorted_entities(included_entities \ excluded_entities)

\* Domain._get_featurized_entities; intent_config is {} for an intent the
\* domain does not have
_get_featurized_entities(latest_message, intent_config) ==
    LET entity_names == Members(latest_message.entities)
        wanted_entities ==
            IF "used_entities" \in DOMAIN intent_config
            THEN Members(intent_config["used_entities"])
            ELSE entity_names
    IN  entity_names \cap wanted_entities

\* Domain._get_user_sub_state of a message with an intent: the sub-states
\* it can return, one for each order of the tuple of the entities
_get_user_sub_state(latest_message, intent_config) ==
    LET featurized == _get_featurized_entities(latest_message, intent_config)
    IN  { IF entities # << >>
          THEN "intent" :> latest_message.intent @@ "entities" :> entities
          ELSE "intent" :> latest_message.intent :
            entities \in tuple_of_set(featurized) }

\* the properties an intent is declared with
IntentProperties ==
    { [ use_entities |-> use, ignore_entities |-> ignore ] :
        use \in { [ all |-> TRUE, names |-> << >> ] }
                    \cup { [ all |-> FALSE, names |-> names ] :
                                names \in NameLists({ "city", "name" }) },
        ignore \in NameLists({ "city", "name" }) }

\* the entity lists of the messages of the model
MessageEntities ==
    { << >>, << "city" >>, << "time" >>, << "city", "name" >>, << "name", "city" >>,
      << "name", "time", "city" >> }

\* an intent with its properties, declared in the domain or not, and two
\* messages of that intent with the same entities, extracted in any order
SubStateInit ==
    /\ AtRest
    /\ \E properties \in IntentProperties, declared \in BOOLEAN,
          first \in MessageEntities, second \in MessageEntities :
            /\ Members(first) = Members(second)
            /\ call = [ op |-> "_get_user_sub_state", properties |-> properties,
                        declared |-> declared,
                        messages |-> << [ intent |-> USER_INTENT_GREET, entities |-> first ],
                                        [ intent |-> USER_INTENT_GREET, entities |-> second ] >>,
                        pc |-> "domain", intent_config |-> EmptyDict,
                        sub_states |-> << >>, feature_keys |-> << >> ]

\* Domain.collect_intent_properties when the domain is constructed
CollectIntentProperties ==
    /\ call.op = "_get_user_sub_state"
    /\ call.pc = "domain"
    /\ call' = [ call EXCEPT
            !.pc = "turn",
            !.intent_config =
                IF call.declared
                THEN _transform_intent_properties_for_internal_use(
                        call.properties, domain_entities)
                ELSE EmptyDict ]
    /\ UNCHANGED processor

\* the user sub-state of the turn after each of the two messages
GetUserSubState ==
    /\ call.op = "_get_user_sub_state"
    /\ call.pc = "turn"
    /\ \E first \in _get_user_sub_state(call.messages[1], call.intent_config),
          second \in _get_user_sub_state(call.messages[2], call.intent_config) :
            call' = [ call EXCEPT !.pc = "key", !.sub_states = << first, second >> ]
    /\ UNCHANGED processor

\* the feature key of each of the two turns
CreateFeatureKeyOfTurn ==
    /\ call.op = "_get_user_sub_state"
    /\ call.pc = "key"
    /\ call' = [ call EXCEPT
            !.pc = "done",
            !.feature_keys =
                [ i \in 1..2 |->
                    _create_feature_key(<< "user" :> call.sub_states[i] @@ Listened >>) ] ]
    /\ UNCHANGED processor

SubStateSpec ==
    SubStateInit
        /\ [][CollectIntentProperties \/ GetUserSubState \/ CreateFeatureKeyOfTurn]_vars

----------------------------------------------------------------------------
(* The story graph (rasa.core.training.structures).  A story step has an id, *)
(* here its number, and the names of its start and end checkpoints; the     *)
(* checkpoints of the model have no conditions.  A graph that is sorted is  *)
(* a function from each node to the set of its successors.                  *)

STORY_START == "STORY_START"
GENERATED_CHECKPOINT_PREFIX == "GENR_"
CHECKPOINT_CYCLE_PREFIX == "CYCL_"

\* sorted(ids) of a set of ids
RECURSIVE sorted_ids(_)
sorted_ids(ids) ==
    IF ids = {} THEN << >>
    ELSE LET least == CHOOSE id \in ids : \A other \in ids : id <= other
         IN  << least >> \o sorted_ids(ids \ { least })

\* sorted(edges) of a set of pairs of ids
RECURSIVE sorted_edges(_)
sorted_edges(edges) ==
    IF edges = {} THEN << >>
    ELSE LET least == CHOOSE e \in edges : \A other \in edges :
                        e[1] < other[1] \/ (e[1] = other[1] /\ e[2] <= other[2])
         IN  << least >> \o sorted_edges(edges \ { least })

\* dfs(node) of topological_sort on the variables of the enclosing function:
\* ordered, unprocessed, visited_nodes and removed_edges
RECURSIVE dfs(_, _, _)
dfs(graph, node, sort) ==
    LET RECURSIVE successors(_, _)
        \* the loop over the sorted successors of the node
        successors(ks, st) ==
            IF ks = << >> THEN st
            ELSE LET k == Head(ks)
                     sk == get(st.visited_nodes, k, NONE)
                 IN  IF sk = "GRAY"
                     THEN successors(Tail(ks),
                            [ st EXCEPT !.removed_edges = @ \cup { << node, k >> } ])
                     ELSE IF sk = "BLACK"
                     THEN successors(Tail(ks), st)
                     ELSE successors(Tail(ks),
                            dfs(graph, k,
                                [ st EXCEPT !.unprocessed =
                                    SelectSeq(@, LAMBDA id : id # k) ]))
        entered == [ sort EXCEPT !.visited_nodes = (node :> "GRAY") @@ @ ]
        left == successors(sorted_ids(get(graph, node, {})), entered)
    IN  [ left EXCEPT !.ordered = << node >> \o @,
                      !.visited_nodes = (node :> "BLACK") @@ @ ]

\* topological_sort that appends a finished node on the right
topological_sort_appending(graph) ==
    LET RECURSIVE loop(_)
        loop(st) ==
            IF st.unprocessed = << >> THEN st
            ELSE loop(dfs(graph, st.unprocessed[Len(st.unprocessed)],
                          [ st EXCEPT !.unprocessed = SubSeq(@, 1, Len(@) - 1) ]))
        sort == loop([ ordered |-> << >>, unprocessed |-> sorted_ids(DOMAIN graph),
                       visited_nodes |-> << >>, removed_edges |-> {} ])
    IN  [ ordered |-> Reversed(sort.ordered),
          removed_edges |-> sorted_edges(sort.removed_edges) ]

\* StoryGraph.topological_sort
topological_sort(graph) ==
    LET RECURSIVE loop(_)
        \* while unprocessed: dfs(unprocessed.pop())
        loop(st) ==
            IF st.unprocessed = << >> THEN st
            ELSE loop(dfs(graph, st.unprocessed[Len(st.unprocessed)],
                          [ st EXCEPT !.unprocessed = SubSeq(@, 1, Len(@) - 1) ]))
        sort == loop([ ordered |-> << >>, unprocessed |-> sorted_ids(DOMAIN graph),
                       visited_nodes |-> << >>, removed_edges |-> {} ])
    IN  [ ordered |-> sort.ordered,
          removed_edges |-> sorted_edges(sort.removed_edges) ]

\* StoryGraph.order_steps: the steps that start with a checkpoint follow the
\* steps that end with it
order_steps(story_steps) ==
    LET all_steps == Members(story_steps)
        graph == [ id \in { s.id : s \in all_steps } |->
                    LET s == CHOOSE step \in all_steps : step.id = id
                    IN  { other.id : other \in
                            { step \in all_steps :
                                Members(step.start_checkpoints)
                                    \cap Members(s.end_checkpoints) # {} } } ]
    IN  topological_sort(graph)

\* StoryGraph.__init__; story_end_checkpoints is {} for None as well
StoryGraph(story_steps, story_end_checkpoints) ==
    LET sort == order_steps(story_steps)
    IN  [ story_steps |-> story_steps,
          ordered_ids |-> sort.ordered,
          cyclic_edge_ids |-> sort.removed_edges,
          story_end_checkpoints |-> story_end_checkpoints ]

\* StoryGraph.merge; other is << >> for None.  dict.update changes the copy
\* it is called on and returns None, which is what merge passes on.
merge(self, other) ==
    IF other = << >> THEN self
    ELSE LET merged_steps == self.story_steps \o other[1].story_steps
             copy == other[1].story_end_checkpoints @@ self.story_end_checkpoints
             story_end_checkpoints == EmptyDict
         IN  StoryGraph(merged_steps, story_end_checkpoints)

\* utils.generate_id: the id generated for the n-th cycle that is removed
generate_id(n) ==
    << "c1", "c2", "c3", "c4", "c5", "c6", "c7", "c8", "c9", "c10", "c11", "c12",
       "c13", "c14", "c15", "c16" >>[n]

\* cp_name.startswith(GENERATED_CHECKPOINT_PREFIX) for the names of the model
is_generated(cp_name) ==
    \E kind \in { "SINK_", "CONN_", "SRC_" }, n \in 1..16 :
        cp_name = GENERATED_CHECKPOINT_PREFIX \o CHECKPOINT_CYCLE_PREFIX
                    \o kind \o generate_id(n)

\* StoryGraph._find_unused_checkpoints; STORY_END is None
_find_unused_checkpoints(story_steps, story_end_checkpoints) ==
    LET collected_start ==
            { NONE, STORY_START }
                \cup UNION { Members(step.start_checkpoints) : step \in Members(story_steps) }
        collected_end ==
            { NONE, STORY_START }
                \cup UNION { { get(story_end_checkpoints, end, end) :
                                end \in Members(step.end_checkpoints) } :
                             step \in Members(story_steps) }
    IN  (collected_end \ collected_start) \cup (collected_start \ collected_end)

\* StoryGraph._remove_unused_generated_cps: the story steps it leaves
_remove_unused_generated_cps(story_steps, overlapping_cps, story_end_checkpoints) ==
    LET unused_cps == _find_unused_checkpoints(story_steps, story_end_checkpoints)
        unused_overlapping_cps == unused_cps \cap overlapping_cps
        unused_genr_cps == { cp_name \in unused_cps : is_generated(cp_name) }
        updated(step) ==
            [ step EXCEPT
                !.start_checkpoints =
                    SelectSeq(@, LAMBDA cp : cp \notin unused_overlapping_cps),
                !.end_checkpoints =
                    SelectSeq(@, LAMBDA cp : cp \notin unused_genr_cps) ]
        to_remove(step) ==
            \/ step.start_checkpoints # << >> /\ updated(step).start_checkpoints = << >>
            \/ step.end_checkpoints # << >> /\ updated(step).end_checkpoints = << >>
        kept == SelectSeq(story_steps, LAMBDA step : ~to_remove(step))
    IN  [ i \in 1..Len(kept) |-> updated(kept[i]) ]

\* StoryGraph.with_cycles_removed: the graph it returns and the graph it was
\* called on, as the call leaves it.  StoryStep.create_copy gives the copy
\* the start and end checkpoint lists of the step itself, so that `starts`
\* are the start checkpoint lists of the steps of self and of their copies
\* alike; `ends` are the end checkpoint lists of the steps in story_steps,
\* that of the start of a cycle a new list.
with_cycles_removed(self) ==
    LET ids == [ i \in 1..Len(self.story_steps) |-> self.story_steps[i].id ]
        step_of(id) == CHOOSE step \in Members(self.story_steps) : step.id = id
        prefix == GENERATED_CHECKPOINT_PREFIX \o CHECKPOINT_CYCLE_PREFIX
        \* the body of the loop over the cyclic edges, for the n-th edge
        remove_cycle(w, n) ==
            LET s == self.cyclic_edge_ids[n][1]
                e == self.cyclic_edge_ids[n][2]
                cid == generate_id(n)
                sink_cp_name == prefix \o "SINK_" \o cid
                connector_cp_name == prefix \o "CONN_" \o cid
                source_cp_name == prefix \o "SRC_" \o cid
                overlapping_cps == Members(w.ends[s]) \cap Members(w.starts[e])
                cp_name(k) == IF k = e THEN source_cp_name ELSE connector_cp_name
                found(k) == SelectSeq(w.starts[k], LAMBDA cp : cp \in overlapping_cps)
                additional_ends(k) ==
                    IF cp_name(k) \in Members(w.starts[k]) THEN << >>
                    ELSE [ i \in 1..Len(found(k)) |-> cp_name(k) ]
                needs_connector ==
                    \E k \in Members(ids) : k # e /\ found(k) # << >>
            IN  [ starts |-> [ k \in Members(ids) |-> w.starts[k] \o additional_ends(k) ],
                  ends |-> [ w.ends EXCEPT ![s] =
                                SelectSeq(@, LAMBDA cp : cp \notin overlapping_cps)
                                    \o << sink_cp_name >>
                                    \o (IF needs_connector
                                        THEN << connector_cp_name >> ELSE << >>) ],
                  story_end_checkpoints |->
                        (sink_cp_name :> source_cp_name) @@ w.story_end_checkpoints,
                  all_overlapping_cps |-> w.all_overlapping_cps \cup overlapping_cps ]
        RECURSIVE loop(_, _)
        loop(w, n) ==
            IF n > Len(self.cyclic_edge_ids) THEN w
            ELSE loop(remove_cycle(w, n), n + 1)
        w == loop([ starts |-> [ k \in Members(ids) |-> step_of(k).start_checkpoints ],
                    ends |-> [ k \in Members(ids) |-> step_of(k).end_checkpoints ],
                    story_end_checkpoints |-> self.story_end_checkpoints,
                    all_overlapping_cps |-> {} ], 1)
        story_steps == [ i \in 1..Len(ids) |->
                            [ id |-> ids[i],
                              start_checkpoints |-> w.starts[ids[i]],
                              end_checkpoints |-> w.ends[ids[i]] ] ]
    IN  [ returned |-> StoryGraph(_remove_unused_generated_cps(story_steps,
                                        w.all_overlapping_cps, w.story_end_checkpoints),
                                  w.story_end_checkpoints),
          self |-> [ self EXCEPT !.story_steps =
                        [ i \in 1..Len(ids) |->
                            [ @[i] EXCEPT !.start_checkpoints = w.starts[ids[i]] ] ] ] ]

\* the start and end checkpoints story steps are written with
StepCheckpoints ==
    { [ start_checkpoints |-> << STORY_START >>, end_checkpoints |-> << "cp1" >> ],
      [ start_checkpoints |-> << "cp1" >>, end_checkpoints |-> << "cp2" >> ],
      [ start_checkpoints |-> << "cp2" >>, end_checkpoints |-> << "cp1" >> ],
      [ start_checkpoints |-> << "cp1" >>, end_checkpoints |-> << "cp1" >> ],
      [ start_checkpoints |-> << "cp1", "cp2" >>, end_checkpoints |-> << >> ] }

\* the lists of n story steps whose ids follow `first`
StorySteps(first, n) ==
    { [ i \in 1..n |-> [ id |-> first + i ] @@ cps[i] ] : cps \in [ 1..n -> StepCheckpoints ] }

\* the story end checkpoints a graph is given
EndCheckpoints ==
    { EmptyDict, "cp2" :> "cp1", "cp2" :> STORY_START @@ "cp1" :> STORY_START }

\* a graph to be sorted; a story graph whose cycles are to be removed; two
\* story graphs to be merged, or one and None
StoryGraphInit ==
    /\ AtRest
    /\ \/ \E n \in 0..MaxStorySteps : \E graph \in [ 1..n -> SUBSET (1..n) ] :
            call = [ op |-> "topological_sort", graph |-> graph, done |-> FALSE,
                     ordered |-> << >>, removed_edges |-> << >> ]
       \/ \E n \in 0..MaxStorySteps : \E story_steps \in StorySteps(0, n) :
            LET self == StoryGraph(story_steps, EmptyDict)
            IN  call = [ op |-> "with_cycles_removed", self |-> self, done |-> FALSE,
                         returned |-> self, self_after |-> self ]
       \/ \E n \in 0..(MaxStorySteps - 2), m \in 0..1 :
            \E story_steps \in StorySteps(0, n), others \in StorySteps(n, m),
               ends \in EndCheckpoints, other_ends \in EndCheckpoints,
               given \in BOOLEAN :
                LET self == StoryGraph(story_steps, ends)
                IN  call = [ op |-> "merge", self |-> self,
                             other |-> IF given
                                       THEN << StoryGraph(others, other_ends) >>
                                       ELSE << >>,
                             done |-> FALSE, returned |-> self ]

\* topological_sort returns
TopologicalSort ==
    /\ call.op = "topological_sort"
    /\ ~call.done
    /\ LET sort == topological_sort(call.graph)
       IN  call' = [ call EXCEPT !.done = TRUE, !.ordered = sort.ordered,
                                 !.removed_edges = sort.removed_edges ]
    /\ UNCHANGED processor

\* with_cycles_removed returns
WithCyclesRemoved ==
    /\ call.op = "with_cycles_removed"
    /\ ~call.done
    /\ LET r == with_cycles_removed(call.self)
       IN  call' = [ call EXCEPT !.done = TRUE, !.returned = r.returned,
                                 !.self_after = r.self ]
    /\ UNCHANGED processor

\* merge returns
Merge ==
    /\ call.op = "merge"
    /\ ~call.done
    /\ call' = [ call EXCEPT !.done = TRUE, !.returned = merge(call.self, call.other) ]
    /\ UNCHANGED processor

StoryGraphSpec ==
    StoryGraphInit /\ [][TopologicalSort \/ WithCyclesRemoved \/ Merge]_vars

----------------------------------------------------------------------------
(* Properties of the execution loop *)

ActionNameSet == { action_names[i] : i \in 1..num_actions }

\* the designated "wait for user" and "session start" actions
Halting(action_name) ==
    action_name \in { "action_listen", "action_session_start" }

Last(seq) == seq[Len(seq)]

\* the loop of a handle_message request has stopped
LoopStopped == pc = "save" /\ op = "handle_message"

\* C1: when the loop of a request has stopped, the tracker is not paused and
\* no action predicted in the run (by the policy ensemble or forced as a
\* follow-up) was action_listen or action_session_start, then exactly
\* max_number_of_predictions actions were executed and on_circuit_break was
\* called exactly once; the loop never executes more than that many actions.
C1_CircuitBreakerAfterN ==
    /\ Len(loop_run) = num_predicted_actions
    /\ num_predicted_actions <= max_number_of_predictions
    /\ ( /\ LoopStopped
         /\ ~tracker.paused
         /\ \A i \in 1..Len(loop_run) : ~Halting(loop_run[i].name) )
       => /\ Len(loop_run) = max_number_of_predictions
          /\ circuit_breaks = 1

\* C1: a run of two actions, neither of them halting, ended by the breaker
C1_Witness ==
    /\ LoopStopped
    /\ ~tracker.paused
    /\ max_number_of_predictions = 2
    /\ Len(loop_run) = 2
    /\ \A i \in 1..Len(loop_run) : ~Halting(loop_run[i].name)
    /\ circuit_breaks = 1

\* the tracker is paused and its latest message does not ask for a restart
PausedForUser == tracker.paused /\ tracker.latest_intent # "restart"

\* C2 as stated: the loop stops after an action exactly if the action is
\* action_listen or action_session_start, or the prediction limit is reached.
C2_StopsOnlyOnHaltOrLimit ==
    /\ pc \in { "loop", "save" } =>
            \A i \in 1..(Len(loop_run) - 1) : ~Halting(loop_run[i].name)
    /\ (LoopStopped /\ loop_run # << >>) =>
            \/ Halting(Last(loop_run).name)
            \/ num_predicted_actions >= max_number_of_predictions

\* C2, amended: the loop stops after an action exactly if the action is
\* action_listen or action_session_start, the prediction limit is reached, or
\* the tracker is paused and the latest intent is not restart; so a halting
\* action is always the last action of its run.
C2_LoopTransition ==
    /\ pc \in { "loop", "save" } =>
            \A i \in 1..(Len(loop_run) - 1) : ~Halting(loop_run[i].name)
    /\ (LoopStopped /\ loop_run # << >>) =>
            \/ Halting(Last(loop_run).name)
            \/ num_predicted_actions >= max_number_of_predictions
            \/ PausedForUser

\* C2: the loop stopped below the limit after an action that paused the
\* conversation
C2_Witness ==
    /\ LoopStopped
    /\ loop_run # << >>
    /\ ~Halting(Last(loop_run).name)
    /\ num_predicted_actions < max_number_of_predictions
    /\ PausedForUser

\* C3: on_circuit_break is called at most once in a loop run, and only when
\* max_number_of_predictions actions were executed and the last of them was
\* neither action_listen nor action_session_start; a run that ends on one of
\* these never calls it.
C3_CircuitBreakOnlyAtLimit ==
    /\ circuit_breaks <= 1
    /\ circuit_breaks = 1 =>
            /\ LoopStopped
            /\ Len(loop_run) >= max_number_of_predictions
            /\ loop_run # << >> => ~Halting(Last(loop_run).name)
    /\ (LoopStopped /\ loop_run # << >> /\ Halting(Last(loop_run).name)) =>
            circuit_breaks = 0

\* C3: the limit was reached by action_listen, and the callback was not called
C3_Witness ==
    /\ LoopStopped
    /\ max_number_of_predictions = 2
    /\ Len(loop_run) = 2
    /\ Last(loop_run).name = "action_listen"
    /\ circuit_breaks = 0

----------------------------------------------------------------------------
(* Properties of sessions *)

\* the part of an event list after its last restart or session start
SinceLastRestart(log) ==
    LET marks == { i \in 1..Len(log) : log[i].type \in { "restart", "session_started" } }
        last == IF marks = {} THEN 0 ELSE CHOOSE i \in marks : \A j \in marks : j <= i
    IN  SubSeq(log, last + 1, Len(log))

\* the last user message since the last restart is older than the
\* expiration time of a domain with sessions
SessionExpired(log, t) ==
    LET since == SinceLastRestart(log)
    IN  /\ session_expiration_time > 0
        /\ \E i \in 1..Len(since) :
            /\ since[i].type = "user"
            /\ \A j \in (i + 1)..Len(since) : since[j].type # "user"
            /\ t - since[i].ts > session_expiration_time

NeedsSessionStart(log, t) ==
    SinceLastRestart(log) = << >> \/ SessionExpired(log, t)

\* the request obtains its tracker
ObtainsTracker == pc = "idle" /\ pc' = "got_tracker"

\* the request logs the incoming user message
LogsMessage == pc = "got_tracker" /\ pc' = "loop"

\* C4: when a message is handled and the stored conversation has no events
\* since the last restart, or its last user message is older than the session
\* expiration time (sessions enabled), action_session_start and SessionStarted
\* are appended first, then the incoming UserUttered, and only then the loop
\* predicts; without these conditions (sessions disabled, or no earlier user
\* message) no session is started.
C4_SessionStartFirst ==
    [][ /\ ObtainsTracker =>
            /\ NeedsSessionStart(store, now) =>
                /\ Len(tracker'.events) >= Len(store) + 3
                /\ SubSeq(tracker'.events, 1, Len(store)) = store
                /\ tracker'.events[Len(store) + 1] =
                        ActionExecuted("action_session_start", NONE, -1, now)
                /\ tracker'.events[Len(store) + 2] = SessionStarted(now)
                /\ \A i \in (Len(store) + 1)..Len(tracker'.events) :
                        tracker'.events[i].type # "user"
            /\ ~NeedsSessionStart(store, now) => tracker'.events = store
            /\ num_predicted_actions' = 0 /\ loop_run' = << >>
        /\ LogsMessage =>
            /\ Len(tracker'.events) = Len(tracker.events) + 1
            /\ SubSeq(tracker'.events, 1, Len(tracker.events)) = tracker.events
            /\ Last(tracker'.events).type = "user"
            /\ num_predicted_actions' = 0 /\ loop_run' = << >>
      ]_vars

\* C4: the message of an expired session is logged after the new session's
\* SessionStarted, before anything is predicted
C4_Witness ==
    /\ pc = "loop"
    /\ op = "handle_message"
    /\ loop_run = << >>
    /\ SessionExpired(store, now)
    /\ SinceLastRestart(store) # << >>
    /\ Len(tracker.events) > Len(store) + 3
    /\ tracker.events[Len(store) + 2].type = "session_started"
    /\ Last(tracker.events).type = "user"

\* C5: the tracker obtained for a conversation without stored events holds
\* exactly ActionExecuted(action_session_start), SessionStarted,
\* ActionExecuted(action_listen), and is not paused.
C5_NewTrackerSessionStart ==
    (pc = "got_tracker" /\ store = << >>) =>
        /\ tracker.events =
                << ActionExecuted("action_session_start", NONE, -1, now),
                   SessionStarted(now),
                   ActionExecuted("action_listen", NONE, -1, now) >>
        /\ ~tracker.paused

\* C5: a tracker was obtained for a conversation without stored events
C5_Witness ==
    /\ pc = "got_tracker"
    /\ op = "predict_next"
    /\ store = << >>
    /\ Len(tracker.events) = 3

\* the events of a list that set a slot
RECURSIVE SlotSetsOf(_)
SlotSetsOf(log) ==
    IF log = << >> THEN << >>
    ELSE (IF Head(log).type = "slot" THEN << Head(log) >> ELSE << >>)
            \o SlotSetsOf(Tail(log))

\* the event list the running request started from
LogBefore == IF pc = "idle" THEN store ELSE tracker.events

\* a step in which action_session_start ran
SessionStartRuns ==
    /\ ran'.name = "action_session_start"
    /\ \/ ObtainsTracker
       \/ pc = "loop" /\ steps' = steps + 1
       \/ pc = "got_tracker" /\ op = "execute_action" /\ pc' = "save"

\* C6: after action_session_start ran and its events were applied, the
\* applied events are the events after the SessionStarted marker: the SlotSet
\* events carried over from the session before (none unless slots are carried
\* over), then ActionExecuted(action_listen); no user message and no earlier
\* event is among them.
C6_AppliedEventsAfterSessionStart ==
    [][ SessionStartRuns =>
            LET carried == IF carry_over_slots
                           THEN SlotSetsOf(SinceLastRestart(LogBefore))
                           ELSE << >>
                applied == applied_events(tracker')
            IN  /\ applied = SinceLastRestart(tracker'.events)
                /\ Len(applied) = Len(carried) + 1
                /\ \A i \in 1..Len(carried) :
                        /\ applied[i].type = "slot"
                        /\ applied[i].name = carried[i].name
                /\ Last(applied) = ActionExecuted("action_listen", NONE, -1, now)
                /\ tracker'.events[Len(tracker'.events) - Len(applied)].type
                        = "session_started"
      ]_vars

\* C6: a session was started after a user message and a SlotSet, and the slot
\* was carried over
C6_Witness ==
    /\ pc = "save"
    /\ ran.name = "action_session_start"
    /\ carry_over_slots
    /\ Len(applied_events(tracker)) = 2
    /\ applied_events(tracker)[1].type = "slot"
    /\ \E i \in 1..Len(tracker.events) : tracker.events[i].type = "user"

----------------------------------------------------------------------------
(* Properties of error handling *)

\* a step of the loop or of execute_action in which an action ran
ActionRuns ==
    \/ pc = "loop" /\ steps' = steps + 1
    \/ pc = "got_tracker" /\ op = "execute_action" /\ pc' = "save"

\* C7: when the run of an action is rejected, exactly one
\* ActionExecutionRejected event (action name, policy, confidence) is appended
\* and nothing else happens: no ActionExecuted event, no response sent, no
\* job scheduled or cancelled; the loop goes on exactly if the rejected action
\* is neither action_listen nor action_session_start.
C7_RejectionLogsOnlyRejected ==
    [][ (ActionRuns /\ ran'.kind = "rejected") =>
            /\ tracker'.events =
                    Append(tracker.events,
                           Event("rejected", ran'.name, now, ran'.policy,
                                 ran'.confidence))
            /\ output_messages' = output_messages
            /\ jobs' = jobs
            /\ error' = NONE
            /\ pc = "loop" =>
                    /\ pc' = "loop"
                    /\ should_predict_another' = ~Halting(ran'.name)
                    /\ num_predicted_actions' = num_predicted_actions + 1
      ]_vars

\* C7: an action was rejected while a reminder job was pending
C7_Witness ==
    /\ pc = "loop"
    /\ ran.kind = "rejected"
    /\ Last(tracker.events).type = "rejected"
    /\ jobs # {}

\* C8: when the run of an action fails with another exception, the request
\* does not fail: the ActionExecuted event of the action is appended, no
\* other event, nothing is sent or scheduled, and the loop goes on exactly
\* if the action is neither action_listen nor action_session_start.
C8_FailureProducesNoEvents ==
    [][ (ActionRuns /\ ran'.kind = "exception") =>
            /\ pc' # "raised"
            /\ error' = NONE
            /\ tracker'.events =
                    Append(tracker.events,
                           Event("action", ran'.name, now, ran'.policy,
                                 ran'.confidence))
            /\ output_messages' = output_messages
            /\ jobs' = jobs
            /\ pc = "loop" =>
                    /\ pc' = "loop"
                    /\ should_predict_another' = ~Halting(ran'.name)
                    /\ num_predicted_actions' = num_predicted_actions + 1
      ]_vars

\* C8: the run of an action failed in the loop, and the loop went on to
\* execute the next action
C8_Witness ==
    /\ pc = "loop"
    /\ Len(loop_run) = 2
    /\ tracker.events[Len(tracker.events) - 1].type = "action"
    /\ tracker.events[Len(tracker.events) - 1].name = loop_run[1].name
    /\ ran.kind = "exception"
    /\ Last(tracker.events).type = "action"

\* C9: a prediction asked for while the pending follow-up action is not an
\* action of the domain raises no error and is the prediction of the policy
\* ensemble.
C9_UnknownFollowupIgnored ==
    (resolved.followup # NONE /\ resolved.followup \notin ActionNameSet) =>
        /\ error = NONE
        /\ pc # "raised"
        /\ resolved.policy = POLICY_NAME

\* a step of the loop that predicts by asking the policy ensemble
EnsemblePredicts ==
    /\ pc = "loop"
    /\ pc' = "raised" \/ steps' = steps + 1
    /\ resolved'.followup = NONE

\* a step of execute_action
ExecuteActionResolves ==
    pc = "got_tracker" /\ op = "execute_action" /\ pc' # pc

\* the failing resolution left no trace: nothing executed, logged or saved
NothingExecuted ==
    /\ tracker'.events = tracker.events
    /\ ran' = ran
    /\ loop_run' = loop_run
    /\ output_messages' = output_messages
    /\ jobs' = jobs
    /\ store' = store

\* C10: an action name that is not in the domain's action_names raises
\* NameError, an action index outside [0, num_actions) raises IndexError;
\* the request ends with the error, and no action is executed or logged
\* for it.
C10_UnknownActionIsFatal ==
    [][ /\ (ExecuteActionResolves /\ resolved'.name \notin ActionNameSet) =>
                pc' = "raised" /\ error' = "NameError" /\ NothingExecuted
        /\ (EnsemblePredicts /\ resolved'.index \notin 0..(num_actions - 1)) =>
                pc' = "raised" /\ error' = "IndexError" /\ NothingExecuted
        /\ pc = "raised" => (pc' = "idle" /\ store' = store)
      ]_vars

\* C10: the loop ended with IndexError after it had executed an action
C10_Witness ==
    /\ pc = "raised"
    /\ error = "IndexError"
    /\ resolved.index = num_actions
    /\ Len(loop_run) = 1

----------------------------------------------------------------------------
(* Properties of the event log *)

\* C11: the ActionExecuted event of an executed action is appended before the
\* events the action produced, these are appended in the order the action
\* returned them, and each of them carries a timestamp strictly greater than
\* the timestamp of the ActionExecuted event.
C11_ProducedEventsStrictlyAfter ==
    (call.op = "_log_action_on_tracker" /\ call.done /\ call.action_name # NONE) =>
        LET before == Len(call.tracker.events)
            log == call.result.events
        IN  /\ Len(log) = before + 1 + Len(call.events)
            /\ SubSeq(log, 1, before) = call.tracker.events
            /\ log[before + 1].type = "action"
            /\ log[before + 1].name = call.action_name
            /\ \A i \in 1..Len(call.events) :
                    /\ log[before + 1 + i].type = call.events[i].type
                    /\ log[before + 1 + i].name = call.events[i].name
                    /\ log[before + 1 + i].ts > log[before + 1].ts

\* C11: an action that produced three events was logged by a clock that gave
\* the same reading twice
C11_Witness ==
    /\ call.op = "_log_action_on_tracker"
    /\ call.done
    /\ call.action_name = ACTION_CUSTOM
    /\ Len(call.events) = 3
    /\ call.clock = << 1, 1, 2 >>

----------------------------------------------------------------------------
(* Properties of the tracker store *)

\* a step of handle_message that ends the call without an exception
HandleMessageCompletes ==
    op = "handle_message" /\ pc # "raised" /\ pc' = "idle"

\* C12: a handle_message call that completes without raising saves the
\* tracker exactly once: no step of the call before its last one changes the
\* tracker store, and its last step stores the event list of the tracker the
\* call obtained at its start, after the loop has stopped, that is after the
\* last action of the call was executed and its events were appended.
C12_SavedOnceAfterLastAction ==
    [][ op = "handle_message" =>
            /\ ~HandleMessageCompletes => store' = store
            /\ HandleMessageCompletes =>
                    /\ pc = "save"
                    /\ ~loop_condition(tracker, num_predicted_actions,
                                       should_predict_another)
                    /\ store' = tracker.events
      ]_vars

\* C12: a handle_message call has saved a tracker with the user's message and
\* the two actions the call executed after it
C12_Witness ==
    /\ pc = "idle"
    /\ Len(store) >= 3
    /\ store[Len(store) - 2].type = "user"
    /\ store[Len(store) - 1].type = "action"
    /\ Last(store) = ActionExecuted(ACTION_LISTEN_NAME, POLICY_NAME,
                                    Last(store).confidence, now)

----------------------------------------------------------------------------
(* Properties of the executions on one conversation *)

\* C13: no two executions for one conversation are at the same time between
\* the retrieval of the tracker and its save.
C13_NoTwoExecutionsInFlight ==
    ~(InFlight("a") /\ InFlight("b"))

\* s is a prefix of t
IsPrefix(s, t) == Len(s) <= Len(t) /\ SubSeq(t, 1, Len(s)) = s

\* C13: handle_message is about to save its tracker while the execution of
\* an external message holds another instance of the tracker of the same
\* conversation, and neither event list continues the other
C13_Witness ==
    /\ executions["a"].op = "handle_message"
    /\ executions["a"].pc = "save"
    /\ executions["b"].pc = "loop"
    /\ ~IsPrefix(executions["a"].tracker.events, executions["b"].tracker.events)
    /\ ~IsPrefix(executions["b"].tracker.events, executions["a"].tracker.events)

\* the projection of a tracker: everything but the event list
Projection(tr) == [ tr EXCEPT !.events = << >> ]

\* C14: the projection of the tracker of a request changes only when an event
\* is appended: a step of a request that leaves the event list as it is
\* leaves the projection as it is.
C14_ProjectionChangesOnlyWithEvents ==
    [][ (pc # "idle" /\ pc' # "idle" /\ tracker'.events = tracker.events) =>
            Projection(tracker') = Projection(tracker)
      ]_vars

\* C14: the tracker of a request has no pending follow-up action although
\* its event list, replayed, has one
C14_Witness ==
    /\ pc # "idle"
    /\ tracker.followup_action = NONE
    /\ from_events(tracker.events).followup_action = ACTION_LISTEN_NAME

\* C15: across the operations on one conversation, one after the other, the
\* event list only grows by appending: the saved list before a step is a
\* prefix of the saved list after it, the tracker an operation obtains
\* begins with the saved list, and the event list of the tracker before a
\* step of the operation is a prefix of its event list after the step.
C15_EventListOnlyGrows ==
    [][ /\ IsPrefix(store, store')
        /\ \A c \in Coroutines :
            /\ (InFlight(c) /\ executions'[c].pc # "idle") =>
                    IsPrefix(executions[c].tracker.events,
                             executions'[c].tracker.events)
            /\ (~InFlight(c) /\ executions'[c].pc # "idle") =>
                    IsPrefix(store, executions'[c].tracker.events)
      ]_vars

\* C15: execute_action ran the custom action and saved, then an external
\* message was handled, an action was executed for it, and the tracker was
\* saved again
C15_Witness ==
    /\ ~InFlight("a")
    /\ \E i \in 1..Len(store), j \in 1..Len(store) :
        /\ i < j
        /\ j < Len(store)
        /\ store[i] = ActionExecuted(ACTION_CUSTOM, NONE, -1, now)
        /\ store[j] = create_external(USER_INTENT_EXTERNAL, now)
        /\ Last(store).type = "action"

----------------------------------------------------------------------------
(* Properties of the reminders *)

\* the job _schedule_reminders adds for reminder e of the conversation
JobOf(e, sender_id) ==
    Job(e.name, scheduled_job_name(e, sender_id), << e, sender_id >>)

\* C16: the scheduler holds at most one pending job per reminder name, and
\* after ReminderScheduled events were processed the job with the name of a
\* reminder among them is the job of the last of them with that name.
C16_OneJobPerReminderName ==
    /\ \A j \in jobs, k \in jobs : j.id = k.id => j = k
    /\ call.op = "_schedule_reminders" =>
            \A i \in 1..Len(call.events) :
                LET e == call.events[i]
                    last == \A k \in (i + 1)..Len(call.events) :
                                    ~_is_reminder(call.events[k], e.name)
                IN  (e.type = "reminder" /\ last) =>
                        { j \in jobs : j.id = e.name } = { JobOf(e, call.sender_id) }

\* C16: two reminders with one name were scheduled while a job with that
\* name was pending
C16_Witness ==
    /\ call.op = "_schedule_reminders"
    /\ call.events = << ReminderScheduled(REMINDER_NAME, 0),
                        ReminderScheduled(REMINDER_NAME, 1) >>
    /\ JobOf(ReminderScheduled(REMINDER_NAME, 0), call.sender_id) \in call.before

\* C17: scheduling the reminders of one conversation leaves every pending
\* job of another conversation in the scheduler.
C17_OtherConversationsKeepTheirJobs ==
    call.op = "_schedule_reminders" =>
        \A j \in call.before : j.args[2] # call.sender_id => j \in jobs

\* C17: a reminder was scheduled in one conversation while a reminder of the
\* other conversation was pending
C17_Witness ==
    /\ call.op = "_schedule_reminders"
    /\ call.sender_id = DEFAULT_SENDER_ID
    /\ \E j \in call.before : j.args[2] = OTHER_SENDER_ID

\* the events cancel job j in the conversation of sender_id
Cancelled(events, j, sender_id) ==
    \E i \in 1..Len(events) :
        /\ events[i].type = "cancel_reminder"
        /\ cancels_job_with_name(events[i], j.name, sender_id)

\* C18: after _cancel_reminders processed the events of a conversation, no
\* job that a ReminderCancelled event among them matches for the sender id
\* of the conversation is in the scheduler, and every job none of them
\* matches is still there; no job is added.
C18_CancelledJobsAndNoOthers ==
    call.op = "_cancel_reminders" =>
        jobs = { j \in call.before : ~Cancelled(call.events, j, call.sender_id) }

\* C18: a reminder of one conversation was cancelled while a reminder of the
\* other conversation was pending, which stays
C18_Witness ==
    /\ call.op = "_cancel_reminders"
    /\ \E j \in call.before : j \notin jobs /\ j.args[2] = call.sender_id
    /\ \E j \in jobs : j.args[2] # call.sender_id

----------------------------------------------------------------------------
(* Properties of the selection of a rule *)

\* a call of _find_action_from_rules has returned
RuleFound == call.op = "_find_action_from_rules" /\ call.done

\* the entries of the lookup table of the call whose keys match the conversation
Matching ==
    { i \in 1..Len(call.rules) :
        call.rules[i].key \in _get_possible_keys(call.rules, call.states) }

\* the matching entries no other matching entry has a longer key than
Longest ==
    { i \in Matching :
        \A j \in Matching : Len(call.rules[j].key) <= Len(call.rules[i].key) }

\* C19: when a shorter rule R1 and a longer rule R2 of the lookup table both
\* match the conversation, _find_action_from_rules does not select R1; when
\* R2 is the one longest matching rule, it selects R2, and the action it
\* returns with no loop active is the action of R2.
C19_LongestMatchingKeyWins ==
    RuleFound =>
        \A R1 \in Matching, R2 \in Matching :
            Len(call.rules[R1].key) < Len(call.rules[R2].key) =>
                /\ call.best_rule_key /= call.rules[R1].key
                /\ Longest = { R2 } =>
                    /\ call.best_rule_key = call.rules[R2].key
                    /\ call.active_loop_name = NONE =>
                            call.action = call.rules[R2].value

\* a shorter and a longer rule with different actions matched, no loop was
\* active, and the action of the longer rule was returned
C19_Witness ==
    /\ RuleFound
    /\ call.active_loop_name = NONE
    /\ \E R1 \in Matching, R2 \in Matching :
        /\ Len(call.rules[R1].key) < Len(call.rules[R2].key)
        /\ call.rules[R1].value /= call.rules[R2].value
        /\ Longest = { R2 }
        /\ call.action = call.rules[R2].value

\* C20: when several matching rules share the maximum length of the key,
\* _find_action_from_rules selects the one of them that was inserted first
\* into the lookup table.
C20_FirstInsertedOfTheLongestWins ==
    (RuleFound /\ Longest /= {}) =>
        call.best_rule_key =
            call.rules[CHOOSE i \in Longest : \A j \in Longest : i <= j].key

\* two matching rules with different actions share the maximum length, no
\* loop was active, and the action of the one inserted later was returned
C20_Witness ==
    /\ RuleFound
    /\ call.active_loop_name = NONE
    /\ \E i \in Longest, j \in Longest :
        /\ i < j
        /\ call.rules[i].value /= call.rules[j].value
        /\ call.best_rule_key = call.rules[j].key
        /\ call.action = call.rules[j].value

----------------------------------------------------------------------------
(* Properties of the matching of a rule turn with a turn of the conversation *)

\* a call of _is_rule_applicable has returned
Matched == call.op = "_is_rule_applicable" /\ call.done

\* the fields of a turn state: sub-state type and key
FieldsOf(state) ==
    UNION { { << state_type, key >> : key \in DOMAIN state[state_type] } :
                state_type \in DOMAIN state }

Has(state, field) ==
    field[1] \in DOMAIN state /\ field[2] \in DOMAIN state[field[1]]

\* the live turn has every such field of the rule turn with an equal value
Agree(rule_state, conversation_state, fields) ==
    \A field \in fields :
        /\ Has(conversation_state, field)
        /\ conversation_state[field[1]][field[2]] = rule_state[field[1]][field[2]]

\* the fields of the rule turn whose value is the 'must be unset' sentinel
SentinelFields(rule_state) ==
    { field \in FieldsOf(rule_state) :
        rule_state[field[1]][field[2]] = SHOULD_NOT_BE_SET }

TheSlot == << "slots", SLOT_NAME >>

\* C21: a rule turn whose value for the slot is the 'must be unset' sentinel
\* does not match a live turn in which the slot has a concrete value, and
\* matches a live turn in which the slot is absent and which has every other
\* field of the rule turn with an equal value.
C21_MustBeUnsetSlot ==
    (Matched /\ TheSlot \in SentinelFields(call.rule_state)) =>
        /\ ( /\ Has(call.conversation_state, TheSlot)
             /\ call.conversation_state["slots"][SLOT_NAME] /= SHOULD_NOT_BE_SET )
                => ~call.matches
        /\ ( /\ ~Has(call.conversation_state, TheSlot)
             /\ Agree(call.rule_state, call.conversation_state,
                      FieldsOf(call.rule_state) \ { TheSlot }) )
                => call.matches

\* a rule turn with an intent and the sentinel for the slot matched a live
\* turn with the intent and without the slot
C21_Witness ==
    /\ Matched
    /\ TheSlot \in SentinelFields(call.rule_state)
    /\ "user" \in DOMAIN call.rule_state
    /\ ~Has(call.conversation_state, TheSlot)
    /\ call.matches

\* C22: a non-empty rule turn matches a non-empty live turn exactly when every
\* field it specifies is in the live turn with an equal value (a sentinel
\* field: when the live turn does not have the field); non-empty live turns
\* that agree on the fields the rule turn mentions get the same result; an
\* empty rule turn matches only an empty live turn, and a non-empty rule turn
\* never matches an empty live turn.
C22_OpenWorldMatching ==
    Matched =>
        LET rule_state == call.rule_state
            live == call.conversation_state
            sentinels == SentinelFields(rule_state)
            same_on_mentioned(other) ==
                \A field \in FieldsOf(rule_state) :
                    /\ Has(other, field) = Has(live, field)
                    /\ Has(other, field) =>
                        other[field[1]][field[2]] = live[field[1]][field[2]]
        IN  /\ (rule_state /= EmptyDict /\ live /= EmptyDict) =>
                /\ call.applicable =
                    ( /\ Agree(rule_state, live, FieldsOf(rule_state) \ sentinels)
                      /\ \A field \in sentinels : ~Has(live, field) )
                /\ \A other \in TurnStates \ { EmptyDict } :
                        same_on_mentioned(other) =>
                            _is_rule_applicable(dumps(<< rule_state >>), 0, other)
                                = call.applicable
            /\ rule_state = EmptyDict => (call.applicable = (live = EmptyDict))
            /\ (rule_state /= EmptyDict /\ live = EmptyDict) => ~call.applicable

\* a rule turn with an intent matched a live turn with the intent and with a
\* slot, a previous action and a loop the rule turn does not mention
C22_Witness ==
    /\ Matched
    /\ DOMAIN call.rule_state = { "user" }
    /\ DOMAIN call.conversation_state = { "user", "slots", "prev_action", "active_loop" }
    /\ call.applicable

----------------------------------------------------------------------------
(* Properties of the alignment of a rule with the conversation *)

\* the rule turn and the live turn match
TurnsMatch(rule_state, live) ==
    \/ rule_state = EmptyDict /\ live = EmptyDict
    \/ /\ rule_state /= EmptyDict
       /\ live /= EmptyDict
       /\ Agree(rule_state, live,
                FieldsOf(rule_state) \ SentinelFields(rule_state))
       /\ \A field \in SentinelFields(rule_state) : ~Has(live, field)

\* the k-th most recent turn of a list of turn states
Recent(states, k) == states[Len(states) + 1 - k]

Min(a, b) == IF a <= b THEN a ELSE b

\* C23: a rule of the lookup table matches the conversation exactly when its
\* min(len(rule), len(history)) most recent turns match the most recent turns
\* of the history one by one, counted from the most recent turn backwards.
C23_AlignedFromTheMostRecentTurn ==
    RuleFound =>
        \A i \in 1..Len(call.rules) :
            LET rule_states == _rule_key_to_state(call.rules[i].key)
            IN  (i \in Matching) =
                    \A k \in 1..Min(Len(rule_states), Len(call.states)) :
                        TurnsMatch(Recent(rule_states, k), Recent(call.states, k))

\* a rule longer than the history matched
C23_Witness ==
    /\ RuleFound
    /\ \E i \in Matching :
        Len(_rule_key_to_state(call.rules[i].key)) > Len(call.states)

----------------------------------------------------------------------------
(* Properties of the rule snippets *)

\* C24: the feature key of a list of turn states is the key of the states
\* after the most recent rule snippet state (that state and the states before
\* it are dropped), no key is created when no state is left, and the lookup
\* table of the rules holds no entry that predicts the rule snippet action.
C24_RuleSnippetsMatchTheTail ==
    /\ (call.op = "train" /\ call.created) =>
        LET snippets == { i \in 1..Len(call.states) :
                            get(get(call.states[i], "prev_action", EmptyDict),
                                "action_name", NONE) = "..." }
            last == IF snippets = {} THEN 0
                    ELSE CHOOSE i \in snippets : \A j \in snippets : j <= i
        IN  call.feature_key =
                IF last = Len(call.states) THEN NONE
                ELSE dumps(SubSeq(call.states, last + 1, Len(call.states)))
    /\ (call.op = "train" /\ call.removed) =>
        /\ \A i \in 1..Len(call.rules) : call.rules[i].value /= "..."
        /\ \A i \in 1..Len(call.rules_lookup) :
            call.rules_lookup[i].value /= "..." =>
                \E j \in 1..Len(call.rules) : call.rules[j] = call.rules_lookup[i]

\* the list had two rule snippet states and a state after them, whose key was
\* created, and an entry that predicted the rule snippet action was removed
C24_Witness ==
    /\ call.op = "train"
    /\ call.created
    /\ call.removed
    /\ Len(call.states) = 3
    /\ _is_rule_snippet_state(call.states[1])
    /\ _is_rule_snippet_state(call.states[2])
    /\ call.feature_key = dumps(<< call.states[3] >>)
    /\ Len(call.rules) < Len(call.rules_lookup)

----------------------------------------------------------------------------
(* Properties of the predictions of the policies *)

\* the rule policy has returned a prediction
RulePredicted == call.op = "RulePolicy.predict_action_probabilities" /\ call.done

\* the prediction gives the action the confidence 1.0 and no other action
Predicts(action_name) ==
    \A i \in 1..Len(call.result) :
        (call.result[i] = 10) = (policy_action_names[i] = action_name)

DefaultIntents == { "restart", "back", "session_start" }

DefaultActionOf(intent) ==
    CASE intent = "restart" -> "action_restart"
      [] intent = "back" -> "action_back"
      [] intent = "session_start" -> "action_session_start"

\* the latest message has a default intent and nothing was executed after it
DefaultIntentApplies ==
    /\ call.tracker.latest_intent \in DefaultIntents
    /\ call.tracker.latest_action_name = "action_listen"

C26_LoopHappyPath ==
    ( /\ RulePredicted
      /\ ~DefaultIntentApplies
      /\ call.tracker.active_loop_name /= NONE
      /\ ~call.tracker.rejected ) =>
        IF call.tracker.latest_action_name /= call.tracker.active_loop_name
        THEN Predicts(call.tracker.active_loop_name)
        ELSE Predicts("action_listen")

\* the loop was active and not rejected, the latest action was action_listen,
\* a rule for another action matched, and the loop action was predicted
C26_Witness ==
    /\ RulePredicted
    /\ ~DefaultIntentApplies
    /\ call.tracker.active_loop_name /= NONE
    /\ ~call.tracker.rejected
    /\ call.tracker.latest_action_name = "action_listen"
    /\ \E i \in 1..Len(call.policy.rules) :
        /\ call.policy.rules[i].value = ACTION_CUSTOM
        /\ call.policy.rules[i].key
                \in _get_possible_keys(call.policy.rules,
                                       prediction_states(call.tracker))
    /\ Predicts(call.tracker.active_loop_name)

\* C29: when no default intent applies, no loop is on its happy path and no
\* rule matches, the rule policy returns zero for every action but the
\* fallback action, which gets the fallback threshold (0.3); with the
\* fallback disabled it returns zero for every action.
C29_FallbackPrediction ==
    ( /\ RulePredicted
      /\ ~DefaultIntentApplies
      /\ call.tracker.active_loop_name /= NONE => call.tracker.rejected
      /\ _get_possible_keys(call.policy.rules,
                            prediction_states(call.tracker)) = {} ) =>
        \A i \in 1..Len(call.result) :
            call.result[i] =
                IF call.policy.enable_fallback_prediction
                    /\ policy_action_names[i] = "action_default_fallback"
                THEN 3 ELSE 0

\* a rule was in the table and did not match, the fallback was enabled and
\* the fallback action got the threshold
C29_Witness ==
    /\ RulePredicted
    /\ ~DefaultIntentApplies
    /\ call.tracker.active_loop_name = NONE
    /\ call.policy.rules /= << >>
    /\ _get_possible_keys(call.policy.rules, prediction_states(call.tracker)) = {}
    /\ call.policy.enable_fallback_prediction
    /\ \E i \in 1..Len(call.result) :
        policy_action_names[i] = "action_default_fallback" /\ call.result[i] = 3

\* C30: a prediction of the rule policy or of the form policy leaves the
\* event list and the projection of the tracker as they were.
C30_PredictionIsPure ==
    (call.op \in { "RulePolicy.predict_action_probabilities",
                   "FormPolicy.predict_action_probabilities" } /\ call.done) =>
        call.tracker_after = call.tracker

\* a prediction of the rule policy appended an event to the tracker
C30_Witness ==
    /\ RulePredicted
    /\ call.tracker_after.events /= call.tracker.events
    /\ call.tracker_after.validate /= call.tracker.validate

----------------------------------------------------------------------------
(* Properties of the rules inside a loop *)

\* the entries of the auxiliary lookup table whose keys match the conversation
AuxiliaryMatching ==
    { i \in 1..Len(call.loop_unhappy) :
        call.loop_unhappy[i].key
            \in _get_possible_keys(call.loop_unhappy, call.states) }

\* the side-conditions of the matching auxiliary entries
Conditions == { call.loop_unhappy[i].value : i \in AuxiliaryMatching }

\* the side-conditions of the matching auxiliary entries with the longest key
ConditionsOfTheLongest ==
    { call.loop_unhappy[i].value :
        i \in { j \in AuxiliaryMatching :
                    \A k \in AuxiliaryMatching :
                        Len(call.loop_unhappy[k].key) <= Len(call.loop_unhappy[j].key) } }

\* a loop is active, the selected rule predicts action_listen and its last
\* turn names no active loop
ListenFromGeneralRule ==
    /\ RuleFound
    /\ call.active_loop_name /= NONE
    /\ Matching /= {}
    /\ \E i \in Matching :
        /\ call.rules[i].key = call.best_rule_key
        /\ call.rules[i].value = "action_listen"
        /\ "active_loop" \notin DOMAIN Recent(_rule_key_to_state(call.rules[i].key), 1)

\* C27: with a loop active, when the selected rule predicts action_listen and
\* its last turn names no active loop, the loop action is returned instead,
\* unless a matching entry of the auxiliary table says not to predict the loop
\* action: then no action is returned.
C27_LoopInsteadOfListen ==
    ListenFromGeneralRule =>
        call.action = IF DO_NOT_PREDICT_LOOP_ACTION \in Conditions
                      THEN NONE ELSE call.active_loop_name

\* the rule predicted action_listen inside the loop, the auxiliary table had
\* no matching entry against the loop action, and the loop action was returned
C27_Witness ==
    /\ ListenFromGeneralRule
    /\ AuxiliaryMatching /= {}
    /\ DO_NOT_PREDICT_LOOP_ACTION \notin Conditions
    /\ call.action = LOOP_ACTION_NAME

----------------------------------------------------------------------------
(* Properties of a paused conversation *)

\* C35: while the tracker is paused and the intent of its latest message is
\* not restart, the loop predicts and executes no action and, when no action
\* was executed yet, does not call on_circuit_break; when the latest intent is
\* restart the loop predicts although the tracker is paused.
C35_PausedLoopPredictsNothing ==
    [][ pc = "loop" =>
          /\ PausedForUser =>
                /\ pc' = "save"
                /\ tracker' = tracker
                /\ loop_run' = loop_run
                /\ num_predicted_actions' = num_predicted_actions
                /\ num_predicted_actions = 0 => circuit_breaks' = 0
          /\ ( /\ tracker.paused
               /\ tracker.latest_intent = "restart"
               /\ should_predict_another
               /\ num_predicted_actions < max_number_of_predictions )
             => \/ pc' = "raised"
                \/ num_predicted_actions' = num_predicted_actions + 1 ]_vars

\* a message was handled on a paused tracker: its loop stopped without an
\* action and without the circuit breaker
C35_Witness ==
    /\ LoopStopped
    /\ PausedForUser
    /\ applied_events(tracker)[Len(applied_events(tracker))].type = "user"
    /\ loop_run = << >>
    /\ num_predicted_actions = 0
    /\ circuit_breaks = 0

----------------------------------------------------------------------------
(* Properties of the follow-up action *)

\* the tracker the i-th prediction of the call was asked for
AskedFor(i) == IF i = 1 THEN call.tracker ELSE call.results[i - 1].tracker

\* C36: a prediction asked for while a follow-up action of the domain is
\* pending is 1 at the index of that action and 0 elsewhere whatever the
\* policy ensemble would answer, has no policy, and clears the follow-up
\* action: the prediction after it is the answer of the policy ensemble.
C36_FollowupForcesOnePrediction ==
    \A i \in 1..Len(call.results) :
        LET followup_action == AskedFor(i).followup_action
            result == call.results[i]
        IN  /\ followup_action \in ActionNameSet =>
                /\ result.raised = NONE
                /\ Len(result.probabilities) = num_actions
                /\ \A idx \in 1..num_actions :
                    result.probabilities[idx] =
                        IF action_names[idx] = followup_action THEN 1 ELSE 0
                /\ result.policy = NONE
                /\ result.tracker.followup_action = NONE
            /\ (i > 1 /\ AskedFor(i - 1).followup_action \in ActionNameSet) =>
                /\ result.probabilities = call.ensemble[i]
                /\ result.policy = POLICY_NAME

\* the follow-up action action_restart forced the first prediction although
\* the ensemble answered otherwise, and the second prediction was the
\* ensemble's
C36_Witness ==
    /\ Len(call.results) = 2
    /\ call.tracker.followup_action = "action_restart"
    /\ call.ensemble[1] # call.results[1].probabilities
    /\ call.results[1].probabilities = << 0, 1, 0, 0 >>
    /\ call.results[2].policy = POLICY_NAME

----------------------------------------------------------------------------
(* Properties of a fired reminder *)

\* the positions of the ReminderScheduled events of that name in the log
ScheduledAt(log, name) ==
    { i \in 1..Len(log) : log[i].type = "reminder" /\ log[i].name = name }

\* the reminder was scheduled since the last restart of the conversation
StillScheduled(log, name) == ScheduledAt(SinceLastRestart(log), name) # {}

\* a user message was logged after the reminder was last scheduled
MessageAfterReminder(log, name) ==
    \E i \in ScheduledAt(log, name) :
        /\ \A k \in ScheduledAt(log, name) : k <= i
        /\ \E j \in (i + 1)..Len(log) : log[j].type = "user"

\* handle_reminder decides on coroutine "a"
ReminderDecided ==
    /\ executions["a"].pc = "got_tracker"
    /\ executions["a"].op = "handle_reminder"
    /\ executions'["a"].pc # "got_tracker"

----------------------------------------------------------------------------
(* Properties of the construction of a domain *)

\* no entry of the list occurs twice
Unique(items) ==
    \A i, j \in 1..Len(items) : items[i] = items[j] => i = j

\* C31: the construction of a domain fails with InvalidDomain whenever the
\* combined list of action names, the slot names or the entities have a
\* duplicate or the intent triggers an action that is not in the action list;
\* a domain that was constructed has unique action names and slot names.
C31_InvalidDomainIsFatal ==
    call.done =>
        /\ ( \/ ~Unique(call.action_names)
             \/ ~Unique(call.slots)
             \/ ~Unique(call.entities)
             \/ /\ call.triggers # NONE
                /\ \A i \in 1..Len(call.action_names) :
                        call.action_names[i] # call.triggers )
            => call.raised = "InvalidDomain"
        /\ call.raised = NONE =>
            /\ Unique(call.action_names)
            /\ Unique(call.slots)

\* the construction failed for a duplicate slot alone
C31_Witness ==
    /\ call.done
    /\ call.raised = "InvalidDomain"
    /\ ~Unique(call.slots)
    /\ Unique(call.action_names)
    /\ Unique(call.entities)
    /\ call.triggers = NONE

----------------------------------------------------------------------------
(* Properties of the user sub-state *)

\* the entities kept in the user sub-state of the i-th turn
KeptEntities(i) ==
    IF "entities" \in DOMAIN call.sub_states[i]
    THEN Members(call.sub_states[i]["entities"])
    ELSE {}

\* the entity is included for the intent: named by use_entities, or an entity
\* of the domain when use_entities is true
IncludedEntity(entity) ==
    IF call.properties.use_entities.all
    THEN \E i \in 1..Len(domain_entities) : domain_entities[i] = entity
    ELSE \E i \in 1..Len(call.properties.use_entities.names) :
            call.properties.use_entities.names[i] = entity

\* the entity is listed in ignore_entities of the intent
IgnoredEntity(entity) ==
    \E i \in 1..Len(call.properties.ignore_entities) :
        call.properties.ignore_entities[i] = entity

\* C32: for an intent of the domain, the entities kept in the user sub-state
\* of a turn are exactly the entity names of the message that are included
\* for the intent and not in its ignore_entities; an entity both included and
\* ignored is dropped.
C32_EntitiesKeptForTheIntent ==
    (call.pc \in { "key", "done" } /\ call.declared) =>
        \A i \in 1..2 :
            KeptEntities(i) =
                { entity \in Members(call.messages[i].entities) :
                    IncludedEntity(entity) /\ ~IgnoredEntity(entity) }

\* of the entities city and name of the message, both included by name, city
\* was ignored and dropped and name was kept
C32_Witness ==
    /\ call.pc = "key"
    /\ call.declared
    /\ Members(call.messages[1].entities) = { "city", "name" }
    /\ ~call.properties.use_entities.all
    /\ IncludedEntity("city") /\ IgnoredEntity("city")
    /\ KeptEntities(1) = { "name" }

\* C33: two turns with the same intent, the same set of kept entities, the
\* same slots, previous action and active loop have the same feature key,
\* whatever the order in which the entities were extracted.
C33_IdenticalStatesHaveIdenticalKeys ==
    (call.pc = "done" /\ KeptEntities(1) = KeptEntities(2)) =>
        call.feature_keys[1] = call.feature_keys[2]

\* two turns with the entities city and name kept have different feature keys
C33_Witness ==
    /\ call.pc = "done"
    /\ KeptEntities(1) = { "city", "name" }
    /\ KeptEntities(2) = { "city", "name" }
    /\ call.feature_keys[1] # call.feature_keys[2]

----------------------------------------------------------------------------
(* Properties of a rule after its action was executed *)

\* the action with the greatest confidence of the prediction
Decision == policy_action_names[argmax(call.result) + 1]

\* the tracker has the history of the user message greet and the executed
\* action action_custom, and the only rule maps the one-turn state with the
\* intent greet to action_custom
RuleAlreadyApplied ==
    /\ RulePredicted
    /\ call.policy.rules =
            << [ key |-> dumps(<< Greeted >>), value |-> ACTION_CUSTOM ] >>
    /\ call.tracker.latest_intent = USER_INTENT_GREET
    /\ call.tracker.latest_action_name = ACTION_CUSTOM
    /\ call.tracker.active_loop_name = NONE

----------------------------------------------------------------------------
(* Properties of the story graph *)

\* the edges of the graph that is sorted
Edges ==
    { e \in (DOMAIN call.graph) \X (DOMAIN call.graph) : e[2] \in call.graph[e[1]] }

\* the places of the node in the order returned
Places(node) == { i \in 1..Len(call.ordered) : call.ordered[i] = node }

\* the nodes reached from the node by one edge or more
RECURSIVE ReachedFrom(_, _)
ReachedFrom(nodes, n) ==
    IF n = 0 THEN {}
    ELSE LET next == UNION { call.graph[node] : node \in nodes }
         IN  next \cup ReachedFrom(next, n - 1)

\* no node of the graph is reached from itself
Acyclic ==
    \A node \in DOMAIN call.graph :
        node \notin ReachedFrom({ node }, Cardinality(DOMAIN call.graph))

\* C38: topological_sort returns every node of the graph exactly once, and
\* edges of the graph to remove such that every other edge goes from a node
\* to a node later in the order; of an acyclic graph no edge is removed.
C38_TopologicalSort ==
    (call.op = "topological_sort" /\ call.done) =>
        /\ \A node \in DOMAIN call.graph : Cardinality(Places(node)) = 1
        /\ Len(call.ordered) = Cardinality(DOMAIN call.graph)
        /\ Members(call.removed_edges) \subseteq Edges
        /\ \A e \in Edges \ Members(call.removed_edges) :
            \A i \in Places(e[1]), j \in Places(e[2]) : i < j
        /\ Acyclic => call.removed_edges = << >>

\* a graph of three nodes with a cycle was sorted: one edge was removed and
\* another kept
C38_Witness ==
    /\ call.op = "topological_sort"
    /\ call.done
    /\ Len(call.ordered) = 3
    /\ Len(call.removed_edges) = 1
    /\ Cardinality(Edges) = 3

\* C39: with_cycles_removed does not change the graph it is called on: the
\* start and end checkpoints of every story step of the graph are after the
\* call what they were before.
C39_OriginalGraphIsNotMutated ==
    (call.op = "with_cycles_removed" /\ call.done) =>
        /\ Len(call.self_after.story_steps) = Len(call.self.story_steps)
        /\ \A i \in 1..Len(call.self.story_steps) :
            /\ call.self_after.story_steps[i].start_checkpoints
                    = call.self.story_steps[i].start_checkpoints
            /\ call.self_after.story_steps[i].end_checkpoints
                    = call.self.story_steps[i].end_checkpoints

\* the only step of the graph, which starts and ends with cp1, starts with
\* a generated checkpoint as well after the call
C39_Witness ==
    /\ call.op = "with_cycles_removed"
    /\ call.done
    /\ Len(call.self.story_steps) = 1
    /\ call.self.story_steps[1].start_checkpoints = << "cp1" >>
    /\ call.self_after.story_steps[1].start_checkpoints
            = << "cp1", "GENR_CYCL_SRC_c1" >>

\* C40: merge with another graph returns a graph whose story steps are those
\* of self followed by those of the other and whose story_end_checkpoints has
\* every entry of both graphs, the entry of the other for a key of both.
C40_MergeKeepsStoryEndCheckpoints ==
    (call.op = "merge" /\ call.done /\ call.other # << >>) =>
        /\ call.returned.story_steps
                = call.self.story_steps \o call.other[1].story_steps
        /\ call.returned.story_end_checkpoints
                = call.other[1].story_end_checkpoints @@ call.self.story_end_checkpoints

\* two graphs with story end checkpoints were merged into one without
C40_Witness ==
    /\ call.op = "merge"
    /\ call.done
    /\ call.other # << >>
    /\ call.self.story_end_checkpoints # EmptyDict
    /\ call.other[1].story_end_checkpoints # EmptyDict
    /\ call.returned.story_end_checkpoints = EmptyDict

====
